---------------------------- MODULE Spec2Model ----------------------------
(***************************************************************************)
(* Model of the client-side image post-processing pipeline of gpt-pod-god  *)
(* (src/src/lib/imageProcessor.ts and its earlier revisions).              *)
(*                                                                         *)
(* Each component of the pipeline is a pure function of its inputs, so     *)
(* each gets a specification of its own whose initial states draw the      *)
(* inputs and whose actions apply the function as the code computes it:    *)
(*   SpecBounds   findContentBounds                                        *)
(*   SpecPlan     calculateCropAndTarget                                   *)
(*   SpecUpscale  multiStepUpscale                                         *)
(*   SpecCanvas   centerOnFinalCanvas                                      *)
(*   SpecFusion   the merge loops of the fusion functions                  *)
(* The variables of the components a specification does not use stay at    *)
(* their idle value.                                                       *)
(***************************************************************************)
EXTENDS Integers, Sequences, FiniteSets, TLC

VARIABLES
    pc,             \* position of the modelled call
    threshold,      \* findContentBounds: the alpha threshold of the revision
    imageData,      \* findContentBounds: the scanned raster
    bounds,         \* findContentBounds: the returned bounds
    originalImg,    \* calculateCropAndTarget: naturalWidth, naturalHeight
    contentBounds,  \* calculateCropAndTarget: what findContentBounds returned
    plan,           \* calculateCropAndTarget: the returned crop and target
    call,           \* multiStepUpscale: srcW, srcH, targetW, targetH
    numSteps,       \* multiStepUpscale: the local of that name
    step,           \* multiStepUpscale: the loop counter
    current,        \* multiStepUpscale: currentW, currentH
    resamples,      \* multiStepUpscale: the smoothed drawImage calls so far
    result,         \* multiStepUpscale: the size of the returned canvas
    contentCanvas,  \* centerOnFinalCanvas: the content raster passed in
    finalCanvas,    \* centerOnFinalCanvas: the canvas returned
    variant,        \* fusion: which process function runs the merge loop
    originalUpscaledData,   \* fusion: the upscaled original, one record a pixel
    externalData,   \* fusion: the rescaled output of the external upscaler
    mergedData,     \* fusion: the pixels the merge loop wrote
    generationStep, \* useDesignGenerator: the state step
    currentStepIndex,\* useDesignGenerator: the state currentStepIndex
    designs,        \* useDesignGenerator: the state designs
    progress,       \* useDesignGenerator: the state progress
    progressInterval,\* generate: the local progressInterval
    elapsed,         \* generate: Date.now() - startTime in ms, 0 without a timer
    edge,           \* generate-design: the outcome of its three calls
    response,       \* generate: what the invoke of generate-design returns
    branches,       \* generate: where each of the five branches is
    loads,          \* generate: loadImage calls of each branch
    encodes,        \* generate: canvasToBlob calls of each branch
    cleanInput,     \* cleanEdges: the data the last call read
    cleanData,      \* cleanEdges: the data of the canvas
    sharpenVariant, \* sharpener: which of the two functions runs
    sharpenInput,   \* sharpener: width, height and data of the canvas
    sharpenOutput,  \* sharpener: the output buffer
    placement,      \* resizeToTarget: where the content is drawn on the final canvas
    esrganImg,      \* fusion: naturalWidth, naturalHeight of the external image
    esrganCrop,     \* fusion: the crop rectangle of the external raster
    mergeInputs,    \* fusion: the sizes of the two rasters of the merge loop
    segmenter,      \* removeBackground: the cached segmentation model
    withProgress,   \* removeBackground: whether onProgress was passed
    reported,       \* removeBackground: the percentages passed to onProgress
    maskData,       \* removeBackground: result[0].mask.data
    removed,        \* removeBackground: the alphas of the resolved blob
    fringeRounding, \* cleanAlphaEdges: how an average is stored
    fringeInput,    \* cleanAlphaEdges: the raster the last iteration read
    fringeOutput,   \* cleanAlphaEdges: the data after the last iteration
    invocations,    \* PromptInput: the position of each invocation of generate
    removeCalls,    \* removeBackground: the position of each call
    pipelineCalls,  \* removeBackground: the number of pipeline(...) invocations
    contentSize,    \* upscaleImage: contentWidth and contentHeight
    currentWidth,   \* upscaleImage: currentWidth
    currentHeight,  \* upscaleImage: currentHeight
    iterations,     \* upscaleImage: iterations of the while loop so far
    attempts,       \* polling loop: attempts
    statusChecks,   \* polling loop: the status fetches made so far
    lastCheck,      \* polling loop: what the last iteration observed
    pollResult,     \* polling loop: result
    pollError,      \* polling loop: the message of the error thrown
    request,        \* generate-design: the body of the request
    falKey,         \* generate-design: the secret FAL_KEY
    upstream,       \* generate-design: the outcomes of the external requests
    sent,           \* generate-design: the external requests sent
    answer,         \* generate-design: the response
    rgbRaster,      \* applyAlpha: the raster that receives the alpha
    alphaSource,    \* extractAlpha: the raster the alpha is taken from
    alphaRaster,    \* extractAlpha: the alpha as an opaque grey raster
    appliedRaster   \* applyAlpha: the output

boundsVars == <<threshold, imageData, bounds>>
planVars == <<originalImg, contentBounds, plan>>
upscaleVars == <<call, numSteps, step, current, resamples, result>>
canvasVars == <<contentCanvas, finalCanvas>>
fusionVars == <<variant, originalUpscaledData, externalData, mergedData>>
generateVars == <<generationStep, currentStepIndex, designs, progress,
                  progressInterval, elapsed, edge, response, branches, loads,
                  encodes>>
cleanVars == <<cleanInput, cleanData>>
sharpenVars == <<sharpenVariant, sharpenInput, sharpenOutput>>
resizeVars == <<placement>>
rescaleVars == <<esrganImg, esrganCrop, mergeInputs>>
removeVars == <<segmenter, withProgress, reported, maskData, removed>>
fringeVars == <<fringeRounding, fringeInput, fringeOutput>>
submitVars == <<invocations>>
callVars == <<removeCalls, pipelineCalls>>
steppedVars == <<contentSize, currentWidth, currentHeight, iterations>>
pollVars == <<attempts, statusChecks, lastCheck, pollResult, pollError>>
serveVars == <<request, falKey, upstream, sent, answer>>
alphaVars == <<rgbRaster, alphaSource, alphaRaster, appliedRaster>>
vars == <<pc, boundsVars, planVars, upscaleVars, canvasVars, fusionVars,
         generateVars,
         cleanVars,
         sharpenVars,
         resizeVars,
         rescaleVars,
         removeVars,
         fringeVars,
         submitVars,
         callVars,
         steppedVars,
         pollVars,
         serveVars,
         alphaVars>>

None == "none"

---------------------------------------------------------------------------
(* Program constants *)

TARGET_WIDTH == 4500
TARGET_HEIGHT == 5400
\* DESIGN_FILL_RATIO = 0.85 as the fraction FILL_NUM / FILL_DEN
FILL_NUM == 85
FILL_DEN == 100
\* alpha > 15 in the current revision, alpha > 20 in the first one
ALPHA_THRESHOLD == 15
ALPHA_THRESHOLD_FIRST == 20
\* the crop padding fraction 0.025 as PADDING_NUM / PADDING_DEN
PADDING_NUM == 25
PADDING_DEN == 1000
\* the merge loops write a pixel as transparent when its alpha is below this
MERGE_ALPHA_MIN == 10

---------------------------------------------------------------------------
(* Bounds of the model *)

\* largest raster width and height scanned pixel by pixel
MaxScanW == 3
MaxScanH == 3
\* rasters up to MaxSide x MaxSide are planned for every content box
MaxSide == 3
\* box coordinates within MaxCoord of a raster edge are enumerated
MaxCoord == 2
\* source rectangles up to MaxSrc x MaxSrc are upscaled to every target
\* up to MaxTarget x MaxTarget
MaxSrc == 3
MaxTarget == 17
\* content rasters up to MaxContent x MaxContent are centred, and the final
\* canvas is read back within ProbeMargin pixels of the content's borders
MaxContent == 3
ProbeMargin == 2
\* rasters of up to MaxPixels pixels are merged
MaxPixels == 2

---------------------------------------------------------------------------
(* Generic helpers *)

Min(a, b) == IF a < b THEN a ELSE b
Max(a, b) == IF a > b THEN a ELSE b
Abs(a) == IF a < 0 THEN -a ELSE a

RECURSIVE Gcd(_, _)
Gcd(a, b) == IF b = 0 THEN a ELSE Gcd(b, a % b)

RECURSIVE Pow2(_)
Pow2(e) == IF e = 0 THEN 1 ELSE 2 * Pow2(e - 1)

\* the exact Math.round of the rational n / d (d > 0): ties go up
RoundHalfUp(n, d) == (2 * n + d) \div (2 * d)

---------------------------------------------------------------------------
(* IEEE-754 double arithmetic of the planner.                              *)
(* The code divides two integers and then multiplies or divides a third    *)
(* integer by the rounded quotient before Math.round.  The real value      *)
(* m * n / d (or m * d / n) has a small denominator, so unless it is       *)
(* exactly k + 1/2 the two roundings (each below 2^-52 relative) cannot    *)
(* move it across k + 1/2 and Math.round gives the exact rounding.  At an  *)
(* exact tie the sign and size of the rounding error of fl(n / d) decide:  *)
(* the operators below compute them from the remainder of n * 2^s by d,    *)
(* where fl(n / d) = round(n * 2^s / d) / 2^s has a 53-bit significand.    *)

\* floor(log2(n / d)) for positive integers n, d
RECURSIVE FloorLog2Ratio(_, _)
FloorLog2Ratio(n, d) ==
    IF n >= d
    THEN IF n >= 2 * d THEN 1 + FloorLog2Ratio(n, 2 * d) ELSE 0
    ELSE FloorLog2Ratio(2 * n, d) - 1

\* (x * 2^s) mod m
RECURSIVE DoubleMod(_, _, _)
DoubleMod(x, s, m) == IF s = 0 THEN x % m ELSE DoubleMod((2 * x) % m, s - 1, m)

\* the remainder of n * 2^(52 - e) by d, e = floor(log2(n / d)): what
\* fl(n / d) drops (remainder below d / 2) or adds (above d / 2)
QuotientRemainder(n, d) == DoubleMod(n % d, 52 - FloorLog2Ratio(n, d), d)

\* Math.round(m * (n / d)) in double arithmetic, m >= 0, n > 0, d > 0
RoundMulQuot(m, n, d) ==
    LET g == Gcd(n, d)
        n0 == n \div g
        d0 == d \div g
        k == (m * n0) \div d0
        rem == (m * n0) % d0
    IN IF 2 * rem # d0
       THEN IF 2 * rem > d0 THEN k + 1 ELSE k
       ELSE LET r == QuotientRemainder(n0, d0)
                e == FloorLog2Ratio(n0, d0)
                j == FloorLog2Ratio(2 * k + 1, 2)
                f == IF k = 0 THEN 4 ELSE 2
            IN IF r > 0 /\ 2 * r < d0 /\ f * m * r > d0 * Pow2(j - e)
               THEN k
               ELSE k + 1

\* the mutant of RoundDivQuot: truncation instead of rounding
TruncDivQuot(m, n, d) == (m * d) \div n

\* Math.round(m / (n / d)) in double arithmetic, m > 0, n > 0, d > 0
RoundDivQuot(m, n, d) ==
    LET g == Gcd(n, d)
        n0 == n \div g
        d0 == d \div g
        k == (m * d0) \div n0
        rem == (m * d0) % n0
    IN IF 2 * rem # n0
       THEN IF 2 * rem > n0 THEN k + 1 ELSE k
       ELSE LET r == QuotientRemainder(n0, d0)
                e == FloorLog2Ratio(n0, d0)
                j == FloorLog2Ratio(2 * k + 1, 2)
                a == d0 - r
                f == IF k = 0 THEN 2 ELSE 1
            IN IF /\ 2 * r > d0
                  /\ IF j >= e
                     THEN f * a * (2 * k + 1) > n0 * Pow2(j - e)
                     ELSE f * a * (2 * k + 1) * Pow2(e - j) > n0
               THEN k
               ELSE k + 1

---------------------------------------------------------------------------
(* findContentBounds *)

\* data[(y * width + x) * 4 + 3]
AlphaAt(image, x, y) == image.data[(y * image.width + x) * 4 + 3]

\* the mutant of ScanPixel: alpha >= threshold instead of alpha > threshold
ScanPixelInclusive(acc, x, y, alpha, th) ==
    IF alpha >= th
    THEN [left   |-> IF x < acc.left THEN x ELSE acc.left,
          right  |-> IF x > acc.right THEN x ELSE acc.right,
          top    |-> IF y < acc.top THEN y ELSE acc.top,
          bottom |-> IF y > acc.bottom THEN y ELSE acc.bottom]
    ELSE acc

\* the body of the scan loop: one pixel updates left, right, top, bottom
ScanPixel(acc, x, y, alpha, th) ==
    IF alpha > th
    THEN [left   |-> IF x < acc.left THEN x ELSE acc.left,
          right  |-> IF x > acc.right THEN x ELSE acc.right,
          top    |-> IF y < acc.top THEN y ELSE acc.top,
          bottom |-> IF y > acc.bottom THEN y ELSE acc.bottom]
    ELSE acc

\* for (y ...) for (x ...): the pixels in row-major order, p = y * width + x
RECURSIVE ScanFrom(_, _, _, _)
ScanFrom(image, th, p, acc) ==
    IF p >= image.width * image.height
    THEN acc
    ELSE LET x == p % image.width
             y == p \div image.width
         IN ScanFrom(image, th, p + 1, ScanPixel(acc, x, y, AlphaAt(image, x, y), th))

\* the mutant of findContentBounds: the scan is returned as it is
findContentBoundsNoFallback(image, th) ==
    ScanFrom(image, th, 0,
        [left |-> image.width, top |-> image.height, right |-> 0, bottom |-> 0])

\* findContentBounds with the threshold of the revision as a parameter
findContentBounds(image, th) ==
    LET scanned == ScanFrom(image, th, 0,
                       [left |-> image.width, top |-> image.height,
                        right |-> 0, bottom |-> 0])
    IN IF scanned.left > scanned.right \/ scanned.top > scanned.bottom
       THEN [left |-> 0, top |-> 0,
             right |-> image.width - 1, bottom |-> image.height - 1]
       ELSE scanned

\* the alpha values a scanned pixel takes: at the threshold and just above it
AlphaSamples(th) == {th, th + 1}

\* a raster whose colour channels are 0 and whose alpha channel is a
MakeImage(w, h, a) ==
    [width |-> w, height |-> h,
     data |-> [i \in 0..(4 * w * h - 1) |-> IF i % 4 = 3 THEN a[i \div 4] ELSE 0]]

IdleBounds == threshold = None /\ imageData = None /\ bounds = None
IdlePlan == originalImg = None /\ contentBounds = None /\ plan = None
IdleUpscale ==
    /\ call = None /\ numSteps = None /\ step = None
    /\ current = None /\ resamples = None /\ result = None
IdleCanvas == contentCanvas = None /\ finalCanvas = None
IdleFusion ==
    /\ variant = None /\ originalUpscaledData = None
    /\ externalData = None /\ mergedData = None

IdleGenerate ==
    /\ generationStep = None
    /\ currentStepIndex = None
    /\ designs = None
    /\ progress = None
    /\ progressInterval = None
    /\ elapsed = None
    /\ edge = None
    /\ response = None
    /\ branches = None
    /\ loads = None
    /\ encodes = None

IdleClean == cleanInput = None /\ cleanData = None

IdleSharpen ==
    /\ sharpenVariant = None
    /\ sharpenInput = None
    /\ sharpenOutput = None

IdleResize == placement = None

IdleRescale == esrganImg = None /\ esrganCrop = None /\ mergeInputs = None

IdleRemove ==
    /\ segmenter = None
    /\ withProgress = None
    /\ reported = None
    /\ maskData = None
    /\ removed = None

IdleFringe ==
    /\ fringeRounding = None
    /\ fringeInput = None
    /\ fringeOutput = None

IdleSubmit == invocations = None

IdleCalls == removeCalls = None /\ pipelineCalls = None

IdleStepped ==
    /\ contentSize = None
    /\ currentWidth = None
    /\ currentHeight = None
    /\ iterations = None

IdlePoll ==
    /\ attempts = None
    /\ statusChecks = None
    /\ lastCheck = None
    /\ pollResult = None
    /\ pollError = None

IdleServe ==
    /\ request = None
    /\ falKey = None
    /\ upstream = None
    /\ sent = None
    /\ answer = None

IdleAlpha ==
    /\ rgbRaster = None
    /\ alphaSource = None
    /\ alphaRaster = None
    /\ appliedRaster = None

InitBounds ==
    /\ pc = "loaded"
    /\ IdleAlpha
    /\ IdleServe
    /\ IdlePoll
    /\ IdleStepped
    /\ IdleCalls
    /\ IdleSubmit
    /\ IdleFringe
    /\ IdleRemove
    /\ IdleRescale
    /\ IdleResize
    /\ IdleSharpen
    /\ IdleClean
    /\ IdleGenerate
    /\ IdlePlan
    /\ IdleUpscale
    /\ IdleCanvas
    /\ IdleFusion
    /\ threshold \in {ALPHA_THRESHOLD, ALPHA_THRESHOLD_FIRST}
    /\ \E w \in 1..MaxScanW, h \in 1..MaxScanH :
         \E a \in [0..(w * h - 1) -> AlphaSamples(threshold)] :
            imageData = MakeImage(w, h, a)
    /\ bounds = None

FindContentBounds ==
    /\ pc = "loaded"
    /\ bounds' = findContentBounds(imageData, threshold)
    /\ pc' = "scanned"
    /\ UNCHANGED <<threshold, imageData, planVars, upscaleVars, canvasVars, fusionVars,
                   generateVars, cleanVars, sharpenVars, resizeVars,
                   rescaleVars, removeVars, fringeVars, submitVars,
                   callVars, steppedVars, pollVars, serveVars,
                   alphaVars>>

NextBounds == FindContentBounds

SpecBounds == InitBounds /\ [][NextBounds]_vars

\* the pixels of the raster that count as content
ContentPixels ==
    {xy \in (0..(imageData.width - 1)) \X (0..(imageData.height - 1)) :
        AlphaAt(imageData, xy[1], xy[2]) > threshold}

\* C1: when at least one pixel has alpha above the threshold, the returned
\* bounds are the bounding box of those pixels: inside the raster, containing
\* every such pixel, and with such a pixel on each of the four edges.
C1_BoundsAreTightBox ==
    (pc = "scanned" /\ ContentPixels # {}) =>
        /\ 0 <= bounds.left /\ bounds.left <= bounds.right
        /\ bounds.right <= imageData.width - 1
        /\ 0 <= bounds.top /\ bounds.top <= bounds.bottom
        /\ bounds.bottom <= imageData.height - 1
        /\ \A xy \in ContentPixels :
              /\ bounds.left <= xy[1] /\ xy[1] <= bounds.right
              /\ bounds.top <= xy[2] /\ xy[2] <= bounds.bottom
        /\ \E xy \in ContentPixels : xy[1] = bounds.left
        /\ \E xy \in ContentPixels : xy[1] = bounds.right
        /\ \E xy \in ContentPixels : xy[2] = bounds.top
        /\ \E xy \in ContentPixels : xy[2] = bounds.bottom

\* a scanned raster whose content box is strictly smaller than the raster
C1_Witness ==
    /\ pc = "scanned"
    /\ ContentPixels # {}
    /\ Cardinality(ContentPixels) >= 2
    /\ bounds.left > 0 /\ bounds.top > 0
    /\ bounds.right > bounds.left
    /\ bounds.bottom < imageData.height - 1

---------------------------------------------------------------------------
(* calculateCropAndTarget *)

\* the mutant of maxContentWidth: the content may fill the canvas
maxContentWidthFull == TARGET_WIDTH

\* TARGET_WIDTH * DESIGN_FILL_RATIO and TARGET_HEIGHT * DESIGN_FILL_RATIO:
\* the double products 4500 * 0.85 and 5400 * 0.85 are exactly 3825 and 4590
maxContentWidth == (TARGET_WIDTH * FILL_NUM) \div FILL_DEN
maxContentHeight == (TARGET_HEIGHT * FILL_NUM) \div FILL_DEN

\* Math.round(Math.max(naturalWidth, naturalHeight) * fraction)
Padding(w, h, num, den) == RoundMulQuot(Max(w, h), num, den)

\* the mutant of CropRight: the clamp forgets the - 1
CropRightOffByOne(size, high, padding) == Min(size, high + padding)

\* Math.min(originalCanvas.width - 1, bounds.right + padding), also cropBottom
CropRight(size, high, padding) == Min(size - 1, high + padding)

\* Math.max(0, bounds.left - padding), also cropTop
CropLeft(low, padding) == Max(0, low - padding)

\* the aspect fit: scaledW and scaledH from contentWidth and contentHeight.
\* contentRatio > targetRatio compares two correctly rounded quotients
\* whose real values differ by 0 or by far more than a rounding error, so
\* it is the exact comparison.
AspectFit(contentWidth, contentHeight) ==
    IF contentWidth * maxContentHeight > contentHeight * maxContentWidth
    THEN [scaledW |-> maxContentWidth,
          scaledH |-> RoundDivQuot(maxContentWidth, contentWidth, contentHeight)]
    ELSE [scaledW |-> RoundMulQuot(maxContentHeight, contentWidth, contentHeight),
          scaledH |-> maxContentHeight]

\* calculateCropAndTarget; b is what findContentBounds returned for the
\* canvas, whose size is naturalWidth x naturalHeight.  padding is the
\* local of that name, kept in the record to be observed.
calculateCropAndTarget(image, b) ==
    LET padding == Padding(image.naturalWidth, image.naturalHeight,
                           PADDING_NUM, PADDING_DEN)
        cropLeft == CropLeft(b.left, padding)
        cropTop == CropLeft(b.top, padding)
        cropRight == CropRight(image.naturalWidth, b.right, padding)
        cropBottom == CropRight(image.naturalHeight, b.bottom, padding)
        contentWidth == cropRight - cropLeft + 1
        contentHeight == cropBottom - cropTop + 1
        fit == AspectFit(contentWidth, contentHeight)
    IN [padding |-> padding,
        cropLeft |-> cropLeft, cropTop |-> cropTop,
        contentWidth |-> contentWidth, contentHeight |-> contentHeight,
        scaledW |-> fit.scaledW, scaledH |-> fit.scaledH]

\* raster sizes beyond MaxSide: the generated 1024 x 1536 image, a square
\* one, and small rasters whose full-frame crop has an aspect fit that is
\* exactly halfway between two integers
SampleSizes ==
    {<<1024, 1536>>, <<1024, 1024>>, <<50, 3>>, <<30, 29>>, <<11, 60>>, <<6, 7>>}

ImageSizes == ((1..MaxSide) \X (1..MaxSide)) \cup SampleSizes

\* distances from a raster edge that a box coordinate takes
CoordSamples == (0..MaxCoord) \cup {38, 39, 100, 135, 635}

Coords(n) == {c \in 0..(n - 1) : c \in CoordSamples \/ (n - 1 - c) \in CoordSamples}

\* what findContentBounds can return for a w x h raster: a box inside it
\* (the bounding box of the content, or the full frame)
BoxesOf(w, h) ==
    {[left |-> l, top |-> t, right |-> r, bottom |-> b] :
        l \in Coords(w), r \in Coords(w), t \in Coords(h), b \in Coords(h)}

InitPlan ==
    /\ pc = "loaded"
    /\ IdleAlpha
    /\ IdleServe
    /\ IdlePoll
    /\ IdleStepped
    /\ IdleCalls
    /\ IdleSubmit
    /\ IdleFringe
    /\ IdleRemove
    /\ IdleRescale
    /\ IdleResize
    /\ IdleSharpen
    /\ IdleClean
    /\ IdleGenerate
    /\ IdleBounds
    /\ IdleUpscale
    /\ IdleCanvas
    /\ IdleFusion
    /\ \E size \in ImageSizes :
         /\ originalImg = [naturalWidth |-> size[1], naturalHeight |-> size[2]]
         /\ \E b \in BoxesOf(size[1], size[2]) :
              /\ b.left <= b.right
              /\ b.top <= b.bottom
              /\ contentBounds = b
    /\ plan = None

CalculateCropAndTarget ==
    /\ pc = "loaded"
    /\ plan' = calculateCropAndTarget(originalImg, contentBounds)
    /\ pc' = "planned"
    /\ UNCHANGED <<originalImg, contentBounds, boundsVars, upscaleVars, canvasVars, fusionVars,
                   generateVars, cleanVars, sharpenVars, resizeVars,
                   rescaleVars, removeVars, fringeVars, submitVars,
                   callVars, steppedVars, pollVars, serveVars,
                   alphaVars>>

NextPlan == CalculateCropAndTarget

SpecPlan == InitPlan /\ [][NextPlan]_vars

\* C2: the crop rectangle is the content bounds expanded by
\* padding = round(max(width, height) * paddingFraction) (31 for 1024 x 1536
\* at fraction 0.02) and clamped to the raster; it contains the bounds, lies
\* inside the raster and is never empty.
C2_CropInsideRaster ==
    /\ Padding(1024, 1536, 2, 100) = 31
    /\ pc = "planned" =>
        LET w == originalImg.naturalWidth
            h == originalImg.naturalHeight
            cropRight == plan.cropLeft + plan.contentWidth - 1
            cropBottom == plan.cropTop + plan.contentHeight - 1
        IN /\ plan.padding = RoundHalfUp(Max(w, h) * PADDING_NUM, PADDING_DEN)
           /\ plan.cropLeft = Max(0, contentBounds.left - plan.padding)
           /\ plan.cropTop = Max(0, contentBounds.top - plan.padding)
           /\ cropRight = Min(w - 1, contentBounds.right + plan.padding)
           /\ cropBottom = Min(h - 1, contentBounds.bottom + plan.padding)
           /\ plan.cropLeft <= contentBounds.left
           /\ plan.cropTop <= contentBounds.top
           /\ contentBounds.right <= cropRight
           /\ contentBounds.bottom <= cropBottom
           /\ plan.cropLeft >= 0
           /\ plan.cropTop >= 0
           /\ plan.cropLeft + plan.contentWidth <= w
           /\ plan.cropTop + plan.contentHeight <= h
           /\ plan.contentWidth >= 1
           /\ plan.contentHeight >= 1

\* a 1024 x 1536 raster whose padding of 38 is clamped at the left and at
\* the bottom edge and not at the other two
C2_Witness ==
    /\ pc = "planned"
    /\ originalImg = [naturalWidth |-> 1024, naturalHeight |-> 1536]
    /\ plan.padding = 38
    /\ contentBounds.left = 2 /\ plan.cropLeft = 0
    /\ contentBounds.top = 100 /\ plan.cropTop = 62
    /\ contentBounds.right = 923 /\ plan.contentWidth = 962
    /\ contentBounds.bottom = 1534 /\ plan.contentHeight = 1474

\* the exact quotient the aspect fit rounds, as numerator and denominator,
\* for the dimension that is not the limiting one
FitIsWidthLimited ==
    plan.contentWidth * maxContentHeight > plan.contentHeight * maxContentWidth
FitNum ==
    IF FitIsWidthLimited
    THEN maxContentWidth * plan.contentHeight
    ELSE maxContentHeight * plan.contentWidth
FitDen == IF FitIsWidthLimited THEN plan.contentWidth ELSE plan.contentHeight
FitFree == IF FitIsWidthLimited THEN plan.scaledH ELSE plan.scaledW
FitLimited == IF FitIsWidthLimited THEN plan.scaledW ELSE plan.scaledH
FitIsTie == (2 * FitNum) % FitDen = 0 /\ ((2 * FitNum) \div FitDen) % 2 = 1

\* C3 as stated: the planned size is the aspect fit into 3825 x 4590 with
\* the free dimension equal to round(3825 * contentHeight / contentWidth),
\* respectively round(4590 * contentWidth / contentHeight).
C3_AspectFitExactRound ==
    pc = "planned" =>
        /\ maxContentWidth = 3825 /\ maxContentHeight = 4590
        /\ FitLimited = (IF FitIsWidthLimited THEN 3825 ELSE 4590)
        /\ FitFree = RoundHalfUp(FitNum, FitDen)
        /\ plan.scaledW <= 3825 /\ plan.scaledH <= 4590

\* C3 amended: the free dimension is an integer nearest to the exact
\* quotient; it is round(quotient) unless the quotient is exactly halfway
\* between two integers, where it is one of the two.
C3_AspectFitNearest ==
    pc = "planned" =>
        /\ maxContentWidth = 3825 /\ maxContentHeight = 4590
        /\ FitLimited = (IF FitIsWidthLimited THEN 3825 ELSE 4590)
        /\ 2 * Abs(FitFree * FitDen - FitNum) <= FitDen
        /\ ~FitIsTie => FitFree = RoundHalfUp(FitNum, FitDen)
        /\ FitIsTie => FitFree \in {RoundHalfUp(FitNum, FitDen) - 1,
                                    RoundHalfUp(FitNum, FitDen)}
        /\ plan.scaledW <= 3825 /\ plan.scaledH <= 4590

\* a 50 x 3 crop: 3825 * 3 / 50 = 229.5 and the planned height is 229
C3_Witness ==
    /\ pc = "planned"
    /\ plan.contentWidth = 50 /\ plan.contentHeight = 3
    /\ FitIsTie
    /\ plan.scaledW = 3825 /\ plan.scaledH = 229

\* C14: when no pixel has alpha above the threshold, the returned bounds
\* are the full frame {0, 0, width - 1, height - 1}, and the crop that
\* calculateCropAndTarget derives from them is the whole raster.
C14_EmptyScanIsFullFrame ==
    (pc = "scanned" /\ ContentPixels = {}) =>
        /\ bounds = [left |-> 0, top |-> 0,
                     right |-> imageData.width - 1,
                     bottom |-> imageData.height - 1]
        /\ LET crop == calculateCropAndTarget(
                           [naturalWidth |-> imageData.width,
                            naturalHeight |-> imageData.height], bounds)
           IN  /\ crop.cropLeft = 0
               /\ crop.cropTop = 0
               /\ crop.contentWidth = imageData.width
               /\ crop.contentHeight = imageData.height

\* a scanned raster of 3 x 2 pixels, none of them above the threshold
C14_Witness ==
    /\ pc = "scanned"
    /\ ContentPixels = {}
    /\ imageData.width = 3
    /\ imageData.height = 2
    /\ bounds.right = 2
    /\ bounds.bottom = 1

---------------------------------------------------------------------------
(* multiStepUpscale *)

\* maxScale <= 2 with maxScale = Math.max(targetW / srcW, targetH / srcH):
\* 2 is a double and the division is correctly rounded, so the comparison
\* is the exact one
IsSinglePass(c) == c.targetW <= 2 * c.srcW /\ c.targetH <= 2 * c.srcH

\* the mutant of CeilLog2Scale: Math.floor instead of Math.ceil
RECURSIVE FloorLog2Scale(_, _)
FloorLog2Scale(c, n) ==
    IF c.targetW < 2 * Pow2(n) * c.srcW /\ c.targetH < 2 * Pow2(n) * c.srcH
    THEN n
    ELSE FloorLog2Scale(c, n + 1)

\* Math.ceil(Math.log2(maxScale)) for maxScale > 1: the least n >= start
\* with maxScale <= 2^n.  Math.log2 is exact at the powers of two and
\* maxScale is a power of two only when the quotient is exact.
RECURSIVE CeilLog2Scale(_, _)
CeilLog2Scale(c, n) ==
    IF c.targetW <= Pow2(n) * c.srcW /\ c.targetH <= Pow2(n) * c.srcH
    THEN n
    ELSE CeilLog2Scale(c, n + 1)

\* the mutant of HasIntermediateStep: the loop runs numSteps times
HasIntermediateStepOneMore(s, n) == s < n

\* the loop condition: step < numSteps - 1
HasIntermediateStep(s, n) == s < n - 1

\* nextW, nextH = Math.min(currentW * 2, targetW), Math.min(currentH * 2, targetH)
NextSize(cur, c) ==
    [w |-> Min(cur.w * 2, c.targetW), h |-> Min(cur.h * 2, c.targetH)]

\* the mutant of FinalCanvasSize: the last intermediate canvas is returned
FinalCanvasSizeCurrent(cur, c) == [width |-> cur.w, height |-> cur.h]

\* finalCanvas.width = targetW; finalCanvas.height = targetH
FinalCanvasSize(cur, c) == [width |-> c.targetW, height |-> c.targetH]

\* a smoothed drawImage from a fromW x fromH area onto a toW x toH canvas
Resample(fromW, fromH, toW, toH) ==
    [fromW |-> fromW, fromH |-> fromH, toW |-> toW, toH |-> toH]

\* calls of the pipeline: the crops of calculateCropAndTarget with their targets
SampleCalls ==
    {[srcW |-> 962, srcH |-> 1474, targetW |-> 2996, targetH |-> 4590],
     [srcW |-> 1024, srcH |-> 1536, targetW |-> 3060, targetH |-> 4590],
     [srcW |-> 1, srcH |-> 1, targetW |-> 3825, targetH |-> 3825],
     [srcW |-> 50, srcH |-> 3, targetW |-> 3825, targetH |-> 229],
     [srcW |-> 11, srcH |-> 60, targetW |-> 841, targetH |-> 4590]}

InitUpscale ==
    /\ pc = "called"
    /\ IdleAlpha
    /\ IdleServe
    /\ IdlePoll
    /\ IdleStepped
    /\ IdleCalls
    /\ IdleSubmit
    /\ IdleFringe
    /\ IdleRemove
    /\ IdleRescale
    /\ IdleResize
    /\ IdleSharpen
    /\ IdleClean
    /\ IdleGenerate
    /\ IdleBounds
    /\ IdlePlan
    /\ IdleCanvas
    /\ IdleFusion
    /\ \/ \E sw \in 1..MaxSrc, sh \in 1..MaxSrc,
            tw \in 1..MaxTarget, th \in 1..MaxTarget :
              call = [srcW |-> sw, srcH |-> sh, targetW |-> tw, targetH |-> th]
       \/ call \in SampleCalls
    /\ numSteps = None
    /\ step = None
    /\ current = None
    /\ resamples = <<>>
    /\ result = None

\* if (maxScale <= 2): one drawImage from the source rectangle to the target
SinglePass ==
    /\ pc = "called"
    /\ IsSinglePass(call)
    /\ resamples' = Append(resamples,
                        Resample(call.srcW, call.srcH, call.targetW, call.targetH))
    /\ result' = [width |-> call.targetW, height |-> call.targetH]
    /\ pc' = "returned"
    /\ UNCHANGED <<call, numSteps, step, current, boundsVars, planVars, canvasVars, fusionVars,
                   generateVars, cleanVars, sharpenVars, resizeVars,
                   rescaleVars, removeVars, fringeVars, submitVars,
                   callVars, steppedVars, pollVars, serveVars,
                   alphaVars>>

\* numSteps, the unscaled copy of the source rectangle, currentW, currentH
BeginMultiStep ==
    /\ pc = "called"
    /\ ~IsSinglePass(call)
    /\ numSteps' = CeilLog2Scale(call, 1)
    /\ current' = [w |-> call.srcW, h |-> call.srcH]
    /\ step' = 0
    /\ pc' = "loop"
    /\ UNCHANGED <<call, resamples, result, boundsVars, planVars, canvasVars, fusionVars,
                   generateVars, cleanVars, sharpenVars, resizeVars,
                   rescaleVars, removeVars, fringeVars, submitVars,
                   callVars, steppedVars, pollVars, serveVars,
                   alphaVars>>

\* one iteration of the loop of intermediate 2x steps
IntermediateStep ==
    /\ pc = "loop"
    /\ HasIntermediateStep(step, numSteps)
    /\ LET next == NextSize(current, call)
       IN /\ resamples' = Append(resamples,
                              Resample(current.w, current.h, next.w, next.h))
          /\ current' = next
    /\ step' = step + 1
    /\ UNCHANGED <<pc, call, numSteps, result, boundsVars, planVars, canvasVars, fusionVars,
                   generateVars, cleanVars, sharpenVars, resizeVars,
                   rescaleVars, removeVars, fringeVars, submitVars,
                   callVars, steppedVars, pollVars, serveVars,
                   alphaVars>>

\* the final step to the exact target dimensions
FinalStep ==
    /\ pc = "loop"
    /\ ~HasIntermediateStep(step, numSteps)
    /\ result' = FinalCanvasSize(current, call)
    /\ resamples' = Append(resamples,
                        Resample(current.w, current.h, result'.width, result'.height))
    /\ pc' = "returned"
    /\ UNCHANGED <<call, numSteps, step, current, boundsVars, planVars, canvasVars, fusionVars,
                   generateVars, cleanVars, sharpenVars, resizeVars,
                   rescaleVars, removeVars, fringeVars, submitVars,
                   callVars, steppedVars, pollVars, serveVars,
                   alphaVars>>

NextUpscale == SinglePass \/ BeginMultiStep \/ IntermediateStep \/ FinalStep

SpecUpscale == InitUpscale /\ [][NextUpscale]_vars

\* C4: the returned raster has exactly the target width and height, on the
\* single-pass and on the multi-step path.
C4_ResultHasTargetSize ==
    pc = "returned" =>
        /\ result.width = call.targetW
        /\ result.height = call.targetH

\* a multi-step run with a scale factor above 8 has returned
C4_Witness ==
    /\ pc = "returned"
    /\ call = [srcW |-> 1, srcH |-> 2, targetW |-> 17, targetH |-> 5]
    /\ numSteps = 5
    /\ result = [width |-> 17, height |-> 5]

\* n is ceil(log2(maxScale)): maxScale <= 2^n and not maxScale <= 2^(n-1)
IsCeilLog2OfScale(n) ==
    /\ call.targetW <= Pow2(n) * call.srcW
    /\ call.targetH <= Pow2(n) * call.srcH
    /\ \/ call.targetW > Pow2(n - 1) * call.srcW
       \/ call.targetH > Pow2(n - 1) * call.srcH

\* C5: maxScale <= 2 gives exactly one resample from the source rectangle
\* to the target; maxScale > 2 gives numSteps = ceil(log2(maxScale)) steps:
\* numSteps - 1 intermediate ones, each to min(current * 2, target) in each
\* axis, then one final resample to the target (maxScale = 8: 3 steps).
C5_StepCount ==
    pc = "returned" =>
        LET n == Len(resamples)
            maxScaleAtMost2 ==
                call.targetW <= 2 * call.srcW /\ call.targetH <= 2 * call.srcH
        IN /\ n >= 1
           /\ resamples[1].fromW = call.srcW /\ resamples[1].fromH = call.srcH
           /\ resamples[n].toW = call.targetW /\ resamples[n].toH = call.targetH
           /\ maxScaleAtMost2 => n = 1
           /\ ~maxScaleAtMost2 =>
                /\ n = numSteps
                /\ IsCeilLog2OfScale(n)
                /\ \A i \in 1..(n - 1) :
                     /\ resamples[i].toW = Min(2 * resamples[i].fromW, call.targetW)
                     /\ resamples[i].toH = Min(2 * resamples[i].fromH, call.targetH)
                     /\ resamples[i + 1].fromW = resamples[i].toW
                     /\ resamples[i + 1].fromH = resamples[i].toH
           /\ (call.targetW = 8 * call.srcW /\ call.targetH <= 8 * call.srcH) => n = 3

\* maxScale = 8: two intermediate rasters and the final resample
C5_Witness ==
    /\ pc = "returned"
    /\ call = [srcW |-> 2, srcH |-> 3, targetW |-> 16, targetH |-> 17]
    /\ resamples = <<Resample(2, 3, 4, 6), Resample(4, 6, 8, 12),
                     Resample(8, 12, 16, 17)>>

\* C6: every resample step, intermediate or final, magnifies by at most 2x
\* in each axis.
C6_StepAtMostDouble ==
    pc \in {"called", "loop", "returned"} =>
        \A i \in 1..Len(resamples) :
            /\ resamples[i].toW <= 2 * resamples[i].fromW
            /\ resamples[i].toH <= 2 * resamples[i].fromH

\* a multi-step run whose final step doubles the width exactly while an
\* intermediate step was capped at the target height
C6_Witness ==
    /\ pc = "returned"
    /\ Len(resamples) = 3
    /\ resamples[3].toW = 2 * resamples[3].fromW
    /\ resamples[1].toH = call.targetH
    /\ resamples[1].toH < 2 * resamples[1].fromH

---------------------------------------------------------------------------
(* centerOnFinalCanvas *)

TransparentPixel == [r |-> 0, g |-> 0, b |-> 0, a |-> 0]

\* the pixel of a content raster at (x, y): a pattern that differs from
\* pixel to pixel and is nowhere transparent
ContentPixel(canvas, x, y) ==
    [r |-> (7 * x + canvas.pattern) % 256,
     g |-> (13 * y + canvas.pattern) % 256,
     b |-> (x + y) % 256,
     a |-> 1 + ((x + 2 * y + canvas.pattern) % 255)]

\* the mutant of CenterOffset: Math.floor instead of Math.round
CenterOffsetFloor(total, size) == (total - size) \div 2

\* Math.round((TARGET_WIDTH - contentCanvas.width) / 2), and the same for
\* the height: the division by 2 is exact in doubles
CenterOffset(total, size) == RoundHalfUp(total - size, 2)

\* the coordinates of one axis that are read back: the two ends of the
\* canvas and the neighbourhood of both borders of the centred content
ProbeAxis(total, size) ==
    LET low == (total - size) \div 2
        high == (total + size) \div 2
    IN {c \in {0, total - 1} \cup ((low - ProbeMargin)..(low + ProbeMargin))
                \cup ((high - ProbeMargin)..(high + ProbeMargin)) :
            0 <= c /\ c < total}

Probes(canvas) ==
    ProbeAxis(TARGET_WIDTH, canvas.width) \X ProbeAxis(TARGET_HEIGHT, canvas.height)

\* drawImage(contentCanvas, offsetX, offsetY) on the cleared canvas: a
\* 1:1 source-over copy, which on transparent pixels leaves the source
DrawImageAt(canvas, offsetX, offsetY, x, y) ==
    IF /\ offsetX <= x /\ x < offsetX + canvas.width
       /\ offsetY <= y /\ y < offsetY + canvas.height
    THEN ContentPixel(canvas, x - offsetX, y - offsetY)
    ELSE TransparentPixel

centerOnFinalCanvas(canvas) ==
    LET offsetX == CenterOffset(TARGET_WIDTH, canvas.width)
        offsetY == CenterOffset(TARGET_HEIGHT, canvas.height)
    IN [width |-> TARGET_WIDTH,
        height |-> TARGET_HEIGHT,
        pixels |-> [p \in Probes(canvas) |->
                        DrawImageAt(canvas, offsetX, offsetY, p[1], p[2])]]

\* the sizes the pipeline centres: the targets of calculateCropAndTarget
ContentWidths == (1..MaxContent) \cup {841, 2996, 3824, 3825, TARGET_WIDTH}
ContentHeights == (1..MaxContent) \cup {229, 4589, 4590, TARGET_HEIGHT}
Patterns == {0, 101, 202}

InitCanvas ==
    /\ pc = "scaled"
    /\ IdleAlpha
    /\ IdleServe
    /\ IdlePoll
    /\ IdleStepped
    /\ IdleCalls
    /\ IdleSubmit
    /\ IdleFringe
    /\ IdleRemove
    /\ IdleRescale
    /\ IdleResize
    /\ IdleSharpen
    /\ IdleClean
    /\ IdleGenerate
    /\ IdleBounds
    /\ IdlePlan
    /\ IdleUpscale
    /\ IdleFusion
    /\ \E w \in ContentWidths, h \in ContentHeights, n \in Patterns :
         contentCanvas = [width |-> w, height |-> h, pattern |-> n]
    /\ finalCanvas = None

CenterOnFinalCanvas ==
    /\ pc = "scaled"
    /\ finalCanvas' = centerOnFinalCanvas(contentCanvas)
    /\ pc' = "centered"
    /\ UNCHANGED <<contentCanvas, boundsVars, planVars, upscaleVars, fusionVars,
                   generateVars, cleanVars, sharpenVars, resizeVars,
                   rescaleVars, removeVars, fringeVars, submitVars,
                   callVars, steppedVars, pollVars, serveVars,
                   alphaVars>>

NextCanvas == CenterOnFinalCanvas

SpecCanvas == InitCanvas /\ [][NextCanvas]_vars

\* C7: the returned raster is exactly 4500 x 5400; the content pixels
\* appear unchanged and unscaled at offset (round((4500 - contentWidth) / 2),
\* round((5400 - contentHeight) / 2)); every pixel outside that rectangle
\* has alpha 0 and colour 0.
C7_ContentCentredUnscaled ==
    pc = "centered" =>
        LET w == contentCanvas.width
            h == contentCanvas.height
            ox == (4500 - w + 1) \div 2
            oy == (5400 - h + 1) \div 2
        IN /\ finalCanvas.width = 4500
           /\ finalCanvas.height = 5400
           /\ \A p \in DOMAIN finalCanvas.pixels :
                LET x == p[1]
                    y == p[2]
                IN IF ox <= x /\ x < ox + w /\ oy <= y /\ y < oy + h
                   THEN finalCanvas.pixels[p] = ContentPixel(contentCanvas, x - ox, y - oy)
                   ELSE finalCanvas.pixels[p] = [r |-> 0, g |-> 0, b |-> 0, a |-> 0]

\* a 2996 x 4589 content raster was centred: its first pixel is at
\* (752, 406), the odd height rounding the offset up, and the pixel to the
\* left of it is transparent
C7_Witness ==
    /\ pc = "centered"
    /\ contentCanvas.width = 2996
    /\ contentCanvas.height = 4589
    /\ finalCanvas.pixels[<<752, 406>>] = ContentPixel(contentCanvas, 0, 0)
    /\ finalCanvas.pixels[<<751, 406>>].a = 0
    /\ finalCanvas.pixels[<<752, 405>>].a = 0
    /\ finalCanvas.pixels[<<3747, 4994>>] = ContentPixel(contentCanvas, 2995, 4588)

---------------------------------------------------------------------------
(* the merge loops of processEsrgan8x, processRealEsrganX4, processDoublePass,
   processSeedVR and processEsrganWithAlpha *)

Variants == {"processEsrgan8x", "processRealEsrganX4", "processDoublePass",
             "processSeedVR", "processEsrganWithAlpha"}

\* the literals of the adjustedRatio line of each loop, in hundredths
MergeParams(v) ==
    CASE v = "processEsrgan8x" -> [strength |-> 10, clampLow |-> 90, clampHigh |-> 110]
      [] v = "processRealEsrganX4" -> [strength |-> 12, clampLow |-> 90, clampHigh |-> 110]
      [] v = "processDoublePass" -> [strength |-> 15, clampLow |-> 88, clampHigh |-> 112]
      [] v = "processSeedVR" -> [strength |-> 10, clampLow |-> 90, clampHigh |-> 110]
      [] v = "processEsrganWithAlpha" -> [strength |-> 15, clampLow |-> 85, clampHigh |-> 115]

\* the mutant of BlendStrength: the luminance ratio is applied in full
BlendStrengthFull(v) == 100

BlendStrength(v) == MergeParams(v).strength

\* 0.299 * R + 0.587 * G + 0.114 * B, in thousandths
Luminance(px) == 299 * px.r + 587 * px.g + 114 * px.b

\* the mutant of IsBelowAlphaMin: alpha <= 10
IsBelowAlphaMinInclusive(alpha) == alpha <= MERGE_ALPHA_MIN

\* if (alpha < 10)
IsBelowAlphaMin(alpha) == alpha < MERGE_ALPHA_MIN

\* the mutant of MergedAlpha: the merged pixel is written opaque
MergedAlphaOpaque(alpha) == 255

\* mergedData.data[i + 3] = alpha
MergedAlpha(alpha) == alpha

\* the values Math.max(0, Math.min(255, Math.round(c * adjustedRatio))) can
\* take.  With E / D the exact value of (lumRatio - 1) * strength:
\*  - origLum = 0: the ratio is 1 and the channel is c;
\*  - the exact ratio outside the clamp: adjustedRatio is the clamp literal
\*    and the product is rounded as the doubles round it;
\*  - the exact ratio inside the clamp: c * adjustedRatio is within a few ulps
\*    of c + c * E / D, so Math.round gives the nearest integer, and either
\*    neighbour when c + c * E / D is an exact half; the result is between
\*    the results for the two clamp literals, Math.round and the product
\*    being monotone.
FusedChannel(c, orig, ext, v) ==
    LET p == MergeParams(v)
        origLum == Luminance(orig)
        extLum == Luminance(ext)
        E == (extLum - origLum) * BlendStrength(v)
        D == 100 * origLum
        atLow == RoundMulQuot(c, p.clampLow, 100)
        atHigh == RoundMulQuot(c, p.clampHigh, 100)
        k == c + ((c * E) \div D)
        rem == (c * E) % D
        raw == IF origLum = 0 THEN {c}
               ELSE IF E > (p.clampHigh - 100) * origLum THEN {atHigh}
               ELSE IF E < (p.clampLow - 100) * origLum THEN {atLow}
               ELSE IF 2 * rem < D THEN {k}
               ELSE IF 2 * rem > D THEN {k + 1}
               ELSE {n \in {k, k + 1} : atLow <= n /\ n <= atHigh}
    IN {Max(0, Min(255, n)) : n \in raw}

\* one iteration of the loop: the pixels it can write at one position
MergePixel(orig, ext, v) ==
    IF IsBelowAlphaMin(orig.a)
    THEN {[r |-> 0, g |-> 0, b |-> 0, a |-> 0]}
    ELSE {[r |-> r, g |-> g, b |-> b, a |-> MergedAlpha(orig.a)] :
            r \in FusedChannel(orig.r, orig, ext, v),
            g \in FusedChannel(orig.g, orig, ext, v),
            b \in FusedChannel(orig.b, orig, ext, v)}

\* the loop from position i on: the pixel sequences it can write
RECURSIVE MergeFrom(_, _, _, _)
MergeFrom(origData, extData, v, i) ==
    IF i > Len(origData)
    THEN {<<>>}
    ELSE {<<px>> \o rest : px \in MergePixel(origData[i], extData[i], v),
                           rest \in MergeFrom(origData, extData, v, i + 1)}

\* the whole loop over the raster
MergeLoop(origData, extData, v) == MergeFrom(origData, extData, v, 1)

\* colours of the upscaled original with the external colours at the same
\* position: zero luminance, ratios inside, at and beyond both clamps,
\* products that are exact halves, products above 255
ColourPairs ==
    {<<<<0, 0, 0>>, <<255, 255, 255>>>>,
     <<<<15, 15, 15>>, <<20, 20, 20>>>>,
     <<<<50, 90, 110>>, <<255, 255, 255>>>>,
     <<<<255, 255, 255>>, <<0, 0, 0>>>>,
     <<<<200, 100, 50>>, <<210, 105, 52>>>>,
     <<<<255, 0, 0>>, <<255, 255, 255>>>>,
     <<<<100, 100, 100>>, <<100, 100, 100>>>>,
     <<<<10, 200, 30>>, <<5, 150, 90>>>>}

MergeAlphas == {0, 9, 10, 255}

Rgba(c, a) == [r |-> c[1], g |-> c[2], b |-> c[3], a |-> a]

InitFusion ==
    /\ pc = "rescaled"
    /\ IdleAlpha
    /\ IdleServe
    /\ IdlePoll
    /\ IdleStepped
    /\ IdleCalls
    /\ IdleSubmit
    /\ IdleFringe
    /\ IdleRemove
    /\ IdleRescale
    /\ IdleResize
    /\ IdleSharpen
    /\ IdleClean
    /\ IdleGenerate
    /\ IdleBounds
    /\ IdlePlan
    /\ IdleUpscale
    /\ IdleCanvas
    /\ variant \in Variants
    /\ \E n \in 1..MaxPixels :
         \E cs \in [1..n -> ColourPairs], as \in [1..n -> MergeAlphas] :
            /\ originalUpscaledData = [i \in 1..n |-> Rgba(cs[i][1], as[i])]
            /\ externalData = [i \in 1..n |-> Rgba(cs[i][2], 255)]
    /\ mergedData = None

Merge ==
    /\ pc = "rescaled"
    /\ mergedData' \in MergeLoop(originalUpscaledData, externalData, variant)
    /\ pc' = "merged"
    /\ UNCHANGED <<variant, originalUpscaledData, externalData,
                   boundsVars, planVars, upscaleVars, canvasVars,
                   generateVars, cleanVars, sharpenVars, resizeVars,
                   rescaleVars, removeVars, fringeVars, submitVars, callVars, steppedVars, pollVars, serveVars, alphaVars>>

NextFusion == Merge

SpecFusion == InitFusion /\ [][NextFusion]_vars

\* C8 as stated: at every pixel position the alpha of the merged raster is
\* byte-identical to the alpha of the upscaled original; the merge loop
\* never modifies alpha.
C8_AlphaIdentical ==
    pc = "merged" =>
        \A i \in 1..Len(originalUpscaledData) :
            mergedData[i].a = originalUpscaledData[i].a

\* C8 as amended: the merged alpha is byte-identical to the alpha of the
\* upscaled original wherever that alpha is 10 or more (and where it is 0);
\* where it is 1 to 9 the merged alpha is 0.
C8_AlphaKeptFromMin ==
    pc = "merged" =>
        /\ Len(mergedData) = Len(originalUpscaledData)
        /\ \A i \in 1..Len(originalUpscaledData) :
             LET alpha == originalUpscaledData[i].a
             IN /\ alpha >= 10 => mergedData[i].a = alpha
                /\ alpha = 0 => mergedData[i].a = alpha
                /\ (1 <= alpha /\ alpha <= 9) => mergedData[i].a = 0

\* an opaque pixel and a pixel of alpha 9 were merged
C8_Witness ==
    /\ pc = "merged"
    /\ Len(originalUpscaledData) = 2
    /\ originalUpscaledData[1].a = 255 /\ mergedData[1].a = 255
    /\ originalUpscaledData[2].a = 9 /\ mergedData[2].a = 0

\* C9: in every variant a pixel whose upscaled-original alpha is below 10
\* is written as R = G = B = A = 0 whatever the external raster holds there,
\* and a pixel whose alpha is 10 or more is never written fully transparent.
C9_TransparentBelowMin ==
    pc = "merged" =>
        \A i \in 1..Len(originalUpscaledData) :
            IF originalUpscaledData[i].a < 10
            THEN mergedData[i] = [r |-> 0, g |-> 0, b |-> 0, a |-> 0]
            ELSE mergedData[i].a # 0

\* a coloured pixel of alpha 9 under a white external pixel was zeroed and
\* a pixel of alpha 10 was kept
C9_Witness ==
    /\ pc = "merged"
    /\ variant = "processDoublePass"
    /\ originalUpscaledData = <<Rgba(<<200, 100, 50>>, 9), Rgba(<<50, 90, 110>>, 10)>>
    /\ externalData[2] = Rgba(<<255, 255, 255>>, 255)
    /\ mergedData = <<Rgba(<<0, 0, 0>>, 0), Rgba(<<56, 101, 123>>, 10)>>

\* (blendStrength, clampLow, clampHigh) of each variant, in hundredths
ClaimedParams(v) ==
    IF v \in {"processEsrgan8x", "processSeedVR"} THEN <<10, 90, 110>>
    ELSE IF v = "processRealEsrganX4" THEN <<12, 90, 110>>
    ELSE IF v = "processDoublePass" THEN <<15, 88, 112>>
    ELSE <<15, 85, 115>>

\* c * a as floor + rem / den, where a = 1 + (Le / Lo - 1) * blendStrength
\* clamped to [clampLow, clampHigh], and a = 1 when Lo = 0
ExactProduct(c, orig, ext, v) ==
    LET q == ClaimedParams(v)
        Lo == 299 * orig.r + 587 * orig.g + 114 * orig.b
        Le == 299 * ext.r + 587 * ext.g + 114 * ext.b
        num == (Le - Lo) * q[1]
        den == 100 * Lo
        clamped(bound) ==
            [floor |-> (c * bound) \div 100, rem |-> (c * bound) % 100, den |-> 100]
    IN IF Lo = 0 THEN [floor |-> c, rem |-> 0, den |-> 1]
       ELSE IF num > (q[3] - 100) * Lo THEN clamped(q[3])
       ELSE IF num < (q[2] - 100) * Lo THEN clamped(q[2])
       ELSE [floor |-> c + ((c * num) \div den), rem |-> (c * num) % den, den |-> den]

Channels(px) == <<px.r, px.g, px.b>>

\* C10 as stated: for every pixel of alpha >= 10 each fused channel equals
\* round(c * a) clamped to [0, 255], and lies between round(clampLow * c)
\* and min(255, round(clampHigh * c)).
C10_ChannelIsExactRound ==
    pc = "merged" =>
        \A i \in 1..Len(originalUpscaledData) : \A ch \in 1..3 :
            LET orig == originalUpscaledData[i]
                c == Channels(orig)[ch]
                x == ExactProduct(c, orig, externalData[i], variant)
                q == ClaimedParams(variant)
            IN orig.a >= 10 =>
                /\ Channels(mergedData[i])[ch] =
                     Min(255, IF 2 * x.rem >= x.den THEN x.floor + 1 ELSE x.floor)
                /\ RoundHalfUp(c * q[2], 100) <= Channels(mergedData[i])[ch]
                /\ Channels(mergedData[i])[ch] <= Min(255, RoundHalfUp(c * q[3], 100))

\* C10 as amended: for every pixel of alpha >= 10 each fused channel is an
\* integer nearest to c * a, clamped to [0, 255]: it equals round(c * a)
\* unless c * a is an exact half, where it is one of the two neighbours;
\* it lies between round(clampLow * c) and min(255, round(clampHigh * c)).
C10_ChannelIsNearest ==
    pc = "merged" =>
        \A i \in 1..Len(originalUpscaledData) : \A ch \in 1..3 :
            LET orig == originalUpscaledData[i]
                c == Channels(orig)[ch]
                x == ExactProduct(c, orig, externalData[i], variant)
                q == ClaimedParams(variant)
                out == Channels(mergedData[i])[ch]
            IN orig.a >= 10 =>
                /\ out \in {Min(255, x.floor), Min(255, x.floor + 1)}
                /\ 2 * x.rem < x.den => out = Min(255, x.floor)
                /\ 2 * x.rem > x.den => out = Min(255, x.floor + 1)
                /\ RoundHalfUp(c * q[2], 100) <= out
                /\ out <= Min(255, RoundHalfUp(c * q[3], 100))

\* processEsrganWithAlpha merged an opaque pixel whose ratio is clamped to
\* 1.15: 50 * 1.15 is the exact half 57.5 and the channel written is 57;
\* the second pixel's red channel, 255 * 1.15, was clamped to 255
C10_Witness ==
    /\ pc = "merged"
    /\ variant = "processEsrganWithAlpha"
    /\ originalUpscaledData = <<Rgba(<<50, 90, 110>>, 255), Rgba(<<255, 0, 0>>, 10)>>
    /\ externalData = <<Rgba(<<255, 255, 255>>, 255), Rgba(<<255, 255, 255>>, 255)>>
    /\ mergedData = <<Rgba(<<57, 103, 126>>, 255), Rgba(<<255, 0, 0>>, 10)>>

---------------------------------------------------------------------------
(* useDesignGenerator.generate and the generate-design edge function *)

ExternalBranches == {"esrgan", "anime", "doublePass", "seedvr"}
Branches == {"standard"} \cup ExternalBranches

\* the field of the response that carries the URL of a branch
UrlField(b) ==
    CASE b = "esrgan" -> "esrganImageUrl"
      [] b = "anime" -> "animeEsrganImageUrl"
      [] b = "doublePass" -> "doublePassImageUrl"
      [] b = "seedvr" -> "seedvrImageUrl"

\* a design that is null
NullDesign == <<>>

NoDesigns == [b \in Branches |-> NullDesign]

\* { previewUrl: URL.createObjectURL(processedBlob), blob: processedBlob }
\* as the pair of the preview URL and the blob of branch b
DesignOf(b) == <<b, b>>

NotStarted == [stage |-> "notStarted", cause |-> "none"]

\* the mutant of OnExternalFailure: the failure is not caught in the branch
OnExternalFailureRejects(cause) == [stage |-> "rejected", cause |-> cause]

\* return null, from the guards and from the catch of an external branch
OnExternalFailure(cause) == [stage |-> "null", cause |-> cause]

\* the mutant of OnStandardFailure: the failure is caught and null returned
OnStandardFailureNull(cause) == [stage |-> "null", cause |-> cause]

\* the standard branch has no try: its promise rejects
OnStandardFailure(cause) == [stage |-> "rejected", cause |-> cause]

\* the mutant of ResultOf: no branch contributes a design
ResultOfNothing(b, br) == NullDesign

\* the value a settled branch contributes to Promise.all
ResultOf(b, br) == IF br.stage = "resolved" THEN DesignOf(b) ELSE NullDesign

\* the mutant of IsSettled: Promise.all waits for a design from every branch
IsSettledWithDesign(br) == br.stage = "resolved"

IsSettled(br) == br.stage \in {"resolved", "null"}

\* the state the hook starts in and that generate and reset set
HookIsReset ==
    /\ generationStep = "idle"
    /\ currentStepIndex = -1
    /\ designs = NoDesigns
    /\ progress = 0

InitGenerate ==
    /\ pc = "mounted"
    /\ IdleAlpha
    /\ IdleServe
    /\ IdlePoll
    /\ IdleStepped
    /\ IdleCalls
    /\ IdleSubmit
    /\ IdleFringe
    /\ IdleRemove
    /\ IdleRescale
    /\ IdleResize
    /\ IdleSharpen
    /\ IdleClean
    /\ IdleBounds
    /\ IdlePlan
    /\ IdleUpscale
    /\ IdleCanvas
    /\ IdleFusion
    /\ HookIsReset
    /\ progressInterval = "null"
    /\ elapsed = 0
    /\ edge = [generate |-> "pending", image |-> "pending", seedvr |-> "pending"]
    /\ response = [status |-> 0]
    /\ branches = [b \in Branches |-> NotStarted]
    /\ loads = [b \in Branches |-> 0]
    /\ encodes = [b \in Branches |-> 0]

\* generate: the full reset before the 50 ms wait
GenerateReset ==
    /\ pc \in {"mounted", "finished"}
    /\ generationStep' = "idle"
    /\ currentStepIndex' = -1
    /\ designs' = NoDesigns
    /\ progress' = 0
    /\ progressInterval' = "null"
    /\ elapsed' = 0
    /\ edge' = [generate |-> "pending", image |-> "pending", seedvr |-> "pending"]
    /\ response' = [status |-> 0]
    /\ branches' = [b \in Branches |-> NotStarted]
    /\ loads' = [b \in Branches |-> 0]
    /\ encodes' = [b \in Branches |-> 0]
    /\ pc' = "resetting"
    /\ UNCHANGED <<boundsVars, planVars, upscaleVars, canvasVars, fusionVars, cleanVars,
                   sharpenVars, resizeVars, rescaleVars, removeVars,
                   fringeVars, submitVars, callVars, steppedVars,
                   pollVars, serveVars, alphaVars>>

\* generate: from the end of the wait to the call of the edge function
GenerateBegin ==
    /\ pc = "resetting"
    /\ generationStep' = "generating"
    /\ currentStepIndex' = 0
    /\ progress' = 0
    /\ progressInterval' = "active"
    /\ elapsed' = 0
    /\ pc' = "invoking"
    /\ UNCHANGED <<designs, edge, response, branches, loads, encodes,
                   boundsVars, planVars, upscaleVars, canvasVars, fusionVars,
                   cleanVars, sharpenVars, resizeVars, rescaleVars,
                   removeVars, fringeVars, submitVars, callVars,
                   steppedVars, pollVars, serveVars, alphaVars>>

\* the response of the edge function for the outcomes of its three calls
EdgeResponse(generate, image, seedvr, others) ==
    IF generate = "rateLimited" THEN [status |-> 429, error |-> "rate limit"]
    ELSE IF generate # "ok" THEN [status |-> 500, error |-> generate]
    ELSE IF image # "ok" THEN [status |-> 500, error |-> "fetch image"]
    ELSE [status |-> 200,
          imageUrl |-> "dataUrl",
          urls |-> others \cup (IF seedvr = "ok" THEN {"seedvrImageUrl"} ELSE {})]

\* the handler of generate-design: the generation call, then in parallel the
\* fetch of the generated image and the SeedVR upscale.  The URL fields the
\* hook reads and this handler never sets are inputs of the hook.
ServeGenerateDesign ==
    /\ pc = "invoking"
    /\ response.status = 0
    /\ \E generate \in {"ok", "rateLimited", "failed", "noImage"} :
         \E image \in (IF generate = "ok" THEN {"ok", "notOk", "throws"} ELSE {"pending"}),
            seedvr \in (IF generate = "ok" THEN {"ok", "notOk", "noUrl", "throws"}
                        ELSE {"pending"}),
            others \in SUBSET {"esrganImageUrl", "animeEsrganImageUrl", "doublePassImageUrl"} :
              /\ edge' = [generate |-> generate, image |-> image, seedvr |-> seedvr]
              /\ response' = EdgeResponse(generate, image, seedvr, others)
    /\ UNCHANGED <<pc, generationStep, currentStepIndex, designs, progress,
                   progressInterval, elapsed, branches, loads, encodes,
                   boundsVars, planVars, upscaleVars, canvasVars, fusionVars,
                   cleanVars, sharpenVars, resizeVars, rescaleVars,
                   removeVars, fringeVars, submitVars, callVars,
                   steppedVars, pollVars, serveVars, alphaVars>>

\* the progress timer: setInterval(..., 200) of generate
EXPECTED_TOTAL_TIME_MS == 50000
serverPhaseEnd == 72
TICK_MS == 200
\* the timer's callback is observed at these tick counts, up to MaxTicks
MaxTicks == 650
TickSamples == {1, 2, 25, 100, 200, 295, 305, 400, 500, 591, MaxTicks}

\* EXPECTED_TOTAL_TIME_MS * 0.85
serverExpectedTime == (EXPECTED_TOTAL_TIME_MS * 85) \div 100

\* the step the callback reads: generate is memoised with no dependencies,
\* so its closure holds the step of the first render
CapturedStep == "idle"

\* displayProgress of the callback for an elapsed time in ms:
\* rawProgress = elapsed / serverExpectedTime * serverPhaseEnd as the
\* fraction p / q, then round(rawProgress * (1 - rawProgress / 200)) clamped
\* to [0, serverPhaseEnd - 2]
SimulatedProgress(ms) ==
    LET g == Gcd(serverPhaseEnd * ms, serverExpectedTime)
        p == (serverPhaseEnd * ms) \div g
        q == serverExpectedTime \div g
        n == p * (200 * q - p)
        d == 200 * q * q
        rounded == (n \div d) + (IF 2 * (n % d) >= d THEN 1 ELSE 0)
    IN Max(0, Min(rounded, serverPhaseEnd - 2))

\* the callback of the timer, run while the timer has not been cleared
TimerTick ==
    /\ progressInterval = "active"
    /\ \E k \in TickSamples :
         /\ TICK_MS * k > elapsed
         /\ elapsed' = TICK_MS * k
    /\ progress' = SimulatedProgress(elapsed')
    /\ generationStep' = IF progress' >= 55 /\ CapturedStep = "generating"
                         THEN "refining" ELSE generationStep
    /\ currentStepIndex' = IF progress' >= 55 /\ CapturedStep = "generating"
                           THEN 1 ELSE currentStepIndex
    /\ UNCHANGED <<pc, designs, progressInterval, edge, response, branches,
                   loads, encodes,
                   boundsVars, planVars, upscaleVars, canvasVars, fusionVars,
                   cleanVars, sharpenVars, resizeVars, rescaleVars,
                   removeVars, fringeVars, submitVars, callVars,
                   steppedVars, pollVars, serveVars, alphaVars>>

\* clearInterval(progressInterval)
clearInterval(timer) == "null"

\* generate: the catch block
CatchError ==
    /\ progressInterval' = clearInterval(progressInterval)
    /\ elapsed' = 0
    /\ generationStep' = "error"
    /\ progress' = 0
    /\ pc' = "finished"
    /\ UNCHANGED <<currentStepIndex, designs>>

\* generate: the invoke itself throws, no response is received
InvokeThrows ==
    /\ pc = "invoking"
    /\ response.status = 0
    /\ CatchError
    /\ UNCHANGED <<edge, response, branches, loads, encodes,
                   boundsVars, planVars, upscaleVars, canvasVars, fusionVars,
                   cleanVars, sharpenVars, resizeVars, rescaleVars,
                   removeVars, fringeVars, submitVars, callVars,
                   steppedVars, pollVars, serveVars, alphaVars>>

\* generate: the invoke returned an error or a body without an image
InvokeFails ==
    /\ pc = "invoking"
    /\ response.status \in {429, 500}
    /\ CatchError
    /\ UNCHANGED <<edge, response, branches, loads, encodes,
                   boundsVars, planVars, upscaleVars, canvasVars, fusionVars,
                   cleanVars, sharpenVars, resizeVars, rescaleVars,
                   removeVars, fringeVars, submitVars, callVars,
                   steppedVars, pollVars, serveVars, alphaVars>>

\* generate: the invoke returned the image; the five branches are started
InvokeReturns ==
    /\ pc = "invoking"
    /\ response.status = 200
    /\ progressInterval' = clearInterval(progressInterval)
    /\ elapsed' = 0
    /\ progress' = 73
    /\ generationStep' = "upscaling"
    /\ currentStepIndex' = 2
    /\ branches' = [b \in Branches |-> [stage |-> "started", cause |-> "none"]]
    /\ pc' = "processing"
    /\ UNCHANGED <<designs, edge, response, loads, encodes,
                   boundsVars, planVars, upscaleVars, canvasVars, fusionVars,
                   cleanVars, sharpenVars, resizeVars, rescaleVars,
                   removeVars, fringeVars, submitVars, callVars,
                   steppedVars, pollVars, serveVars, alphaVars>>

\* one step of a branch changes that branch's locals only
BranchStep(b, next, loaded, encoded) ==
    /\ branches' = [branches EXCEPT ![b] = next]
    /\ loads' = [loads EXCEPT ![b] = @ + loaded]
    /\ encodes' = [encodes EXCEPT ![b] = @ + encoded]
    /\ UNCHANGED <<pc, generationStep, currentStepIndex, designs, progress,
                   progressInterval, elapsed, edge, response,
                   boundsVars, planVars, upscaleVars, canvasVars, fusionVars,
                   cleanVars, sharpenVars, resizeVars, rescaleVars,
                   removeVars, fringeVars, submitVars, callVars,
                   steppedVars, pollVars, serveVars, alphaVars>>

BranchesRun == pc \in {"processing", "finished"}

\* resizeToTarget: await loadImage(imageBlob)
StandardDecode ==
    /\ BranchesRun
    /\ branches["standard"].stage = "started"
    /\ \/ BranchStep("standard", [stage |-> "decoded", cause |-> "none"], 1, 0)
       \/ BranchStep("standard", OnStandardFailure("decode"), 1, 0)

\* resizeToTarget: the synchronous pipeline, then canvasToBlob(finalCanvas)
StandardEncode ==
    /\ BranchesRun
    /\ branches["standard"].stage = "decoded"
    /\ \/ BranchStep("standard", [stage |-> "resolved", cause |-> "none"], 0, 1)
       \/ BranchStep("standard", OnStandardFailure("encode"), 0, 1)

\* an external branch: if (!data.<url>) return null, else fetch
ExternalStart(b) ==
    /\ BranchesRun
    /\ branches[b].stage = "started"
    /\ IF UrlField(b) \in response.urls
       THEN BranchStep(b, [stage |-> "fetching", cause |-> "none"], 0, 0)
       ELSE BranchStep(b, OnExternalFailure("noUrl"), 0, 0)

\* an external branch: the fetch settles
ExternalFetch(b) ==
    /\ BranchesRun
    /\ branches[b].stage = "fetching"
    /\ \/ BranchStep(b, [stage |-> "fetched", cause |-> "none"], 0, 0)
       \/ BranchStep(b, OnExternalFailure("notOk"), 0, 0)
       \/ BranchStep(b, OnExternalFailure("fetchThrows"), 0, 0)

\* an external branch: response.blob(), then processEsrganWithAlpha starts
\* and loads both blobs
ExternalDecode(b) ==
    /\ BranchesRun
    /\ branches[b].stage = "fetched"
    /\ \/ BranchStep(b, [stage |-> "decoded", cause |-> "none"], 2, 0)
       \/ BranchStep(b, OnExternalFailure("blobThrows"), 0, 0)
       \/ BranchStep(b, OnExternalFailure("decode"), 2, 0)

\* an external branch: the fusion, then canvasToBlob(finalCanvas)
ExternalEncode(b) ==
    /\ BranchesRun
    /\ branches[b].stage = "decoded"
    /\ \/ BranchStep(b, [stage |-> "resolved", cause |-> "none"], 0, 1)
       \/ BranchStep(b, OnExternalFailure("encode"), 0, 1)

\* Promise.all resolves: every branch has a value
AllSettled ==
    /\ pc = "processing"
    /\ \A b \in Branches : IsSettled(branches[b])
    /\ designs' = [b \in Branches |-> ResultOf(b, branches[b])]
    /\ generationStep' = "complete"
    /\ currentStepIndex' = 3
    /\ progress' = 100
    /\ pc' = "finished"
    /\ UNCHANGED <<progressInterval, elapsed, edge, response, branches, loads,
                   encodes,
                   boundsVars, planVars, upscaleVars, canvasVars, fusionVars,
                   cleanVars, sharpenVars, resizeVars, rescaleVars,
                   removeVars, fringeVars, submitVars, callVars,
                   steppedVars, pollVars, serveVars, alphaVars>>

\* Promise.all rejects as soon as one branch rejects
OneRejected ==
    /\ pc = "processing"
    /\ \E b \in Branches : branches[b].stage = "rejected"
    /\ CatchError
    /\ UNCHANGED <<edge, response, branches, loads, encodes,
                   boundsVars, planVars, upscaleVars, canvasVars, fusionVars,
                   cleanVars, sharpenVars, resizeVars, rescaleVars,
                   removeVars, fringeVars, submitVars, callVars,
                   steppedVars, pollVars, serveVars, alphaVars>>

NextGenerate ==
    \/ GenerateReset
    \/ GenerateBegin
    \/ ServeGenerateDesign
    \/ TimerTick
    \/ InvokeThrows
    \/ InvokeFails
    \/ InvokeReturns
    \/ StandardDecode
    \/ StandardEncode
    \/ \E b \in ExternalBranches : ExternalStart(b)
    \/ \E b \in ExternalBranches : ExternalFetch(b)
    \/ \E b \in ExternalBranches : ExternalDecode(b)
    \/ \E b \in ExternalBranches : ExternalEncode(b)
    \/ AllSettled
    \/ OneRejected

SpecGenerate == InitGenerate /\ [][NextGenerate]_vars

\* the external branches that failed: no URL, fetch not ok, or an exception
FailedBranches == {b \in ExternalBranches : branches[b].cause # "none"}

\* C11: a missing URL, a non-ok fetch or an exception in one of the four
\* external branches yields null for that branch only: when the standard
\* branch has resolved the generation ends in step 'complete' with the
\* standard design present, every failed branch null and every other branch
\* with its own design.  In the edge function a failed SeedVR upscale yields
\* seedvrImageUrl = null in an otherwise successful response.
C11_ExternalFailureIsolated ==
    /\ (pc = "finished" /\ branches["standard"].stage = "resolved") =>
          /\ generationStep = "complete"
          /\ designs["standard"] = <<"standard", "standard">>
          /\ \A b \in ExternalBranches :
                designs[b] = IF b \in FailedBranches
                             THEN NullDesign
                             ELSE <<b, b>>
    /\ (pc \in {"invoking", "processing", "finished"}
            /\ edge.generate = "ok" /\ edge.image = "ok") =>
          /\ response.status = 200
          /\ response.imageUrl = "dataUrl"
          /\ ("seedvrImageUrl" \in response.urls) = (edge.seedvr = "ok")

\* a generation completed in which the ESRGAN fetch was not ok, the anime
\* URL was missing, the double pass fusion threw and SeedVR succeeded
C11_Witness ==
    /\ pc = "finished"
    /\ generationStep = "complete"
    /\ branches["esrgan"].cause = "notOk"
    /\ branches["anime"].cause = "noUrl"
    /\ branches["doublePass"].cause = "encode"
    /\ designs["seedvr"] = DesignOf("seedvr")
    /\ designs["doublePass"] = NullDesign
    /\ designs["standard"] = DesignOf("standard")


\* the pipeline invocations of a generation that failed to decode their input
\* or to encode their final canvas
FailedPipelines == {b \in Branches : branches[b].cause \in {"decode", "encode"}}

\* C18: a pipeline invocation whose input fails to decode or whose final
\* canvas fails to encode yields no blob and is attempted exactly once: each
\* of its blobs is loaded once and its canvas encoded at most once.  When it
\* is the standard pipeline its promise rejects and the generation ends in
\* step 'error' with no design.
C18_PipelineFailureRejectsOnce ==
    pc \in {"processing", "finished"} =>
        /\ \A b \in FailedPipelines :
              /\ branches[b].stage \in {"rejected", "null"}
              /\ ResultOf(b, branches[b]) = NullDesign
              /\ designs[b] = NullDesign
              /\ loads[b] = (IF b = "standard" THEN 1 ELSE 2)
              /\ encodes[b] = (IF branches[b].cause = "encode" THEN 1 ELSE 0)
        /\ ("standard" \in FailedPipelines) => branches["standard"].stage = "rejected"
        /\ (pc = "finished" /\ "standard" \in FailedPipelines) =>
              /\ generationStep = "error"
              /\ designs = NoDesigns

\* the generation ended in 'error' because the final canvas of the standard
\* pipeline could not be encoded, while an external branch had resolved
C18_Witness ==
    /\ pc = "finished"
    /\ generationStep = "error"
    /\ branches["standard"] = [stage |-> "rejected", cause |-> "encode"]
    /\ loads["standard"] = 1
    /\ encodes["standard"] = 1
    /\ branches["seedvr"].stage = "resolved"

\* the awaited operations settle and the continuations of generate run: the
\* 50 ms wait, the edge function, every step of every branch and the
\* settling of Promise.all
GenerateFairness ==
    /\ WF_vars(GenerateBegin)
    /\ WF_vars(ServeGenerateDesign)
    /\ WF_vars(InvokeFails)
    /\ WF_vars(InvokeReturns)
    /\ WF_vars(StandardDecode)
    /\ WF_vars(StandardEncode)
    /\ \A b \in ExternalBranches :
          /\ WF_vars(ExternalStart(b))
          /\ WF_vars(ExternalFetch(b))
          /\ WF_vars(ExternalDecode(b))
          /\ WF_vars(ExternalEncode(b))
    /\ WF_vars(AllSettled)
    /\ WF_vars(OneRejected)

SpecGenerateFair == SpecGenerate /\ GenerateFairness

\* C22: when every awaited operation settles, an invocation of generate
\* reaches step 'complete' or step 'error', after which isProcessing is false.
C22_GenerateTerminates ==
    (pc \in {"resetting", "invoking", "processing"})
        ~> (pc = "finished" /\ generationStep \in {"complete", "error"})

\* the invocation is waiting for its branches, one of which returned null
C22_Witness ==
    /\ pc = "processing"
    /\ generationStep = "upscaling"
    /\ branches["anime"].stage = "null"
    /\ branches["standard"].stage = "decoded"

\* C25: in step 'complete' the standard design is present, progress is 100
\* and currentStepIndex is 3; in step 'error' progress is 0 and all five
\* designs are null.
C25_TerminalStepsAgree ==
    /\ generationStep = "complete" =>
          /\ designs["standard"] # NullDesign
          /\ progress = 100
          /\ currentStepIndex = 3
    /\ generationStep = "error" =>
          /\ progress = 0
          /\ designs = NoDesigns

\* a generation completed with the standard design and without the ESRGAN
\* design, all the fields of the claim set by the same completion
C25_Witness ==
    /\ pc = "finished"
    /\ generationStep = "complete"
    /\ designs["standard"] = DesignOf("standard")
    /\ designs["esrgan"] = NullDesign
    /\ progress = 100
    /\ currentStepIndex = 3

\* C27: while generate-design is pending the simulated progress never
\* decreases from one run of the timer's callback to a later one, and never
\* exceeds the cap serverPhaseEnd - 2.
C27_ProgressMonotoneAndCapped ==
    [][(progressInterval = "active" /\ progressInterval' = "active"
        /\ elapsed' > elapsed /\ elapsed > 0)
       => (progress' >= progress /\ progress' <= serverPhaseEnd - 2)]_vars

---------------------------------------------------------------------------
(* cleanEdges *)

\* if (alpha < 10) in cleanEdges
CLEAN_ALPHA_MIN == 10

\* the largest number of pixels of a cleaned raster
MaxCleanPixels == 2

\* the mutant of IsNoise: alpha <= 10 instead of alpha < 10
IsNoiseInclusive(alpha) == alpha <= CLEAN_ALPHA_MIN

IsNoise(alpha) == alpha < CLEAN_ALPHA_MIN

\* the body of the loop of cleanEdges for one pixel
CleanPixel(p) == IF IsNoise(p.a) THEN Rgba(<<0, 0, 0>>, 0) ELSE p

\* cleanEdges on the data of the canvas
cleanEdges(data) == [i \in 1..Len(data) |-> CleanPixel(data[i])]

CleanColours == {<<0, 0, 0>>, <<200, 100, 50>>}
CleanAlphas == {0, CLEAN_ALPHA_MIN - 1, CLEAN_ALPHA_MIN, 255}
CleanSamples == {Rgba(c, a) : c \in CleanColours, a \in CleanAlphas}

InitClean ==
    /\ pc = "upscaled"
    /\ IdleAlpha
    /\ IdleServe
    /\ IdlePoll
    /\ IdleStepped
    /\ IdleCalls
    /\ IdleSubmit
    /\ IdleFringe
    /\ IdleRemove
    /\ IdleRescale
    /\ IdleResize
    /\ IdleSharpen
    /\ IdleBounds
    /\ IdlePlan
    /\ IdleUpscale
    /\ IdleCanvas
    /\ IdleFusion
    /\ IdleGenerate
    /\ \E n \in 1..MaxCleanPixels : cleanData \in [1..n -> CleanSamples]
    /\ cleanInput = cleanData

\* a call of cleanEdges on the canvas; cleanInput keeps what the call read
CleanEdges ==
    /\ pc \in {"upscaled", "cleaned"}
    /\ cleanInput' = cleanData
    /\ cleanData' = cleanEdges(cleanData)
    /\ pc' = IF pc = "upscaled" THEN "cleaned" ELSE "cleanedAgain"
    /\ UNCHANGED <<boundsVars, planVars, upscaleVars, canvasVars, fusionVars,
                   generateVars, sharpenVars, resizeVars, rescaleVars,
                   removeVars, fringeVars, submitVars, callVars,
                   steppedVars, pollVars, serveVars, alphaVars>>

NextClean == CleanEdges

SpecClean == InitClean /\ [][NextClean]_vars

\* C12: cleanEdges writes 0 to the four bytes of every pixel whose alpha is
\* below 10 and leaves every other pixel byte-identical; a second call on
\* its own output changes nothing.
C12_CleanEdges ==
    /\ pc = "cleaned" =>
          /\ Len(cleanData) = Len(cleanInput)
          /\ \A i \in 1..Len(cleanInput) :
                IF cleanInput[i].a < 10
                THEN cleanData[i] = [r |-> 0, g |-> 0, b |-> 0, a |-> 0]
                ELSE cleanData[i] = cleanInput[i]
    /\ pc = "cleanedAgain" => cleanData = cleanInput

\* the second call returned, on a raster whose first pixel had alpha 9 and
\* a colour and whose second pixel had alpha 10
C12_Witness ==
    /\ pc = "cleanedAgain"
    /\ Len(cleanData) = 2
    /\ cleanData[1] = [r |-> 0, g |-> 0, b |-> 0, a |-> 0]
    /\ cleanData[2] = [r |-> 200, g |-> 100, b |-> 50, a |-> 10]

---------------------------------------------------------------------------
(* applySharpeningFilter and sharpenCanvas *)

SharpenVariants == {"applySharpeningFilter", "sharpenCanvas"}

\* if (data[idx + 3] < 25) continue, and < 10 in sharpenCanvas
SHARPEN_SKIP_FILTER == 25
SHARPEN_SKIP_CANVAS == 10

SkipBelow(v) ==
    IF v = "applySharpeningFilter" THEN SHARPEN_SKIP_FILTER ELSE SHARPEN_SKIP_CANVAS

\* the largest raster that is sharpened
MaxSharpenW == 4
MaxSharpenH == 3
\* the number of colour patterns of the sharpened rasters
MaxSharpenPattern == 2

\* Math.max(0, Math.min(255, n))
Clamp255(n) == Max(0, Min(255, n))

\* the value written for one channel: centre c and the sum s of the four
\* neighbours.  applySharpeningFilter with its default strength 1.5 writes
\* Math.round(7c - 1.5s) clamped; sharpenCanvas, called with strength 0.4,
\* stores c + (4c - s) * 0.4 clamped into a Uint8ClampedArray, which rounds
\* to the nearest integer (the value is never a tie: it is a multiple of 0.2)
SharpenedValue(v, c, s) ==
    IF v = "applySharpeningFilter"
    THEN Clamp255((14 * c - 3 * s + 1) \div 2)
    ELSE LET n == 5 * c + 2 * (4 * c - s)
         IN  IF n < 0 THEN 0 ELSE Min(255, RoundHalfUp(n, 5))

\* index in the sequence of pixels of the pixel (x, y)
PixelIndex(image, x, y) == y * image.width + x + 1

\* for (y = 1; y < height - 1; y++) for (x = 1; x < width - 1; x++)
IsInterior(image, x, y) ==
    /\ 1 <= x /\ x < image.width - 1
    /\ 1 <= y /\ y < image.height - 1

\* the mutant of NeighbourSource: the neighbours are read from the output
NeighbourSourceInPlace(data, output) == output

\* the buffer the kernel reads the centre and the neighbours from
NeighbourSource(data, output) == data

\* the body of the loops for the pixel (x, y): the pixel written to output
SharpenPixel(image, output, v, x, y) ==
    LET from == NeighbourSource(image.data, output)
        at(dx, dy) == from[PixelIndex(image, x + dx, y + dy)]
        chan(c) == LET get(p) == IF c = 1 THEN p.r ELSE IF c = 2 THEN p.g ELSE p.b
                   IN  SharpenedValue(v, get(at(0, 0)),
                                      get(at(0, -1)) + get(at(0, 1))
                                          + get(at(-1, 0)) + get(at(1, 0)))
    IN  [r |-> chan(1), g |-> chan(2), b |-> chan(3),
         a |-> IF v = "applySharpeningFilter"
               THEN image.data[PixelIndex(image, x, y)].a
               ELSE output[PixelIndex(image, x, y)].a]

\* the loops from the pixel of index k on, in row order
RECURSIVE SharpenFrom(_, _, _, _)
SharpenFrom(k, image, output, v) ==
    IF k > image.width * image.height THEN output
    ELSE LET x == (k - 1) % image.width
             y == (k - 1) \div image.width
         IN  IF IsInterior(image, x, y) /\ ~(image.data[k].a < SkipBelow(v))
             THEN SharpenFrom(k + 1, image,
                      [output EXCEPT ![k] = SharpenPixel(image, output, v, x, y)], v)
             ELSE SharpenFrom(k + 1, image, output, v)

\* the sharpener: output starts as a copy of data
Sharpen(image, v) == SharpenFrom(1, image, image.data, v)

\* the colour of pixel (x, y) in pattern p
SharpenColour(p, x, y) ==
    <<(p * 50 + x * 70 + y * 110) % 256,
      (p * 90 + x * 200 + y * 30 + 40) % 256,
      (p * 20 + x * 120 + y * 130 + 200) % 256>>

SharpenAlphas(v) == {0, SkipBelow(v) - 1, SkipBelow(v), 255}

\* the rasters: a pattern of colours, one alpha for the border pixels and
\* one alpha for each interior pixel
SharpenImages(v) ==
    UNION {
      LET shape == [width |-> w, height |-> h]
          n == w * h
          xOf(k) == (k - 1) % w
          yOf(k) == (k - 1) \div w
          interior == {k \in 1..n : IsInterior(shape, xOf(k), yOf(k))}
      IN  {[width |-> w, height |-> h,
            data |-> [k \in 1..n |->
                        Rgba(SharpenColour(p, xOf(k), yOf(k)),
                             IF k \in interior THEN alphas[k] ELSE border)]] :
             p \in 1..MaxSharpenPattern,
             border \in {0, 255},
             alphas \in [interior -> SharpenAlphas(v)]}
      : w \in 1..MaxSharpenW, h \in 1..MaxSharpenH}

InitSharpen ==
    /\ pc = "drawn"
    /\ IdleAlpha
    /\ IdleServe
    /\ IdlePoll
    /\ IdleStepped
    /\ IdleCalls
    /\ IdleSubmit
    /\ IdleFringe
    /\ IdleRemove
    /\ IdleRescale
    /\ IdleResize
    /\ IdleBounds
    /\ IdlePlan
    /\ IdleUpscale
    /\ IdleCanvas
    /\ IdleFusion
    /\ IdleGenerate
    /\ IdleClean
    /\ sharpenVariant \in SharpenVariants
    /\ sharpenInput \in SharpenImages(sharpenVariant)
    /\ sharpenOutput = None

\* the sharpener runs on the data of the canvas
SharpenCanvas ==
    /\ pc = "drawn"
    /\ sharpenOutput' = Sharpen(sharpenInput, sharpenVariant)
    /\ pc' = "sharpened"
    /\ UNCHANGED <<sharpenVariant, sharpenInput,
                   boundsVars, planVars, upscaleVars, canvasVars, fusionVars,
                   generateVars, cleanVars, resizeVars, rescaleVars,
                   removeVars, fringeVars, submitVars, callVars,
                   steppedVars, pollVars, serveVars, alphaVars>>

NextSharpen == SharpenCanvas

SpecSharpen == InitSharpen /\ [][NextSharpen]_vars

\* the pixels of the sharpened raster that the loops visit and do not skip
SharpenedPixels ==
    {k \in 1..Len(sharpenInput.data) :
        /\ IsInterior(sharpenInput, (k - 1) % sharpenInput.width,
                                    (k - 1) \div sharpenInput.width)
        /\ sharpenInput.data[k].a >= SkipBelow(sharpenVariant)}

\* C13: the sharpener leaves unchanged the alpha of every pixel, every
\* channel of the pixels of the first and last row and column, and every
\* channel of the pixels whose alpha is below the skip threshold (25 in
\* applySharpeningFilter, 10 in sharpenCanvas); a raster whose alphas are
\* all 0 is returned byte-identical; and each pixel it writes is computed
\* from the centre and the four neighbours of the input buffer.
C13_SharpenerPreserves ==
    pc = "sharpened" =>
        LET data == sharpenInput.data
            w == sharpenInput.width
            skip == IF sharpenVariant = "applySharpeningFilter" THEN 25 ELSE 10
        IN  /\ Len(sharpenOutput) = Len(data)
            /\ \A k \in 1..Len(data) :
                  LET x == (k - 1) % w
                      y == (k - 1) \div w
                  IN  /\ sharpenOutput[k].a = data[k].a
                      /\ (x = 0 \/ y = 0 \/ x = w - 1 \/ y = sharpenInput.height - 1)
                            => sharpenOutput[k] = data[k]
                      /\ data[k].a < skip => sharpenOutput[k] = data[k]
            /\ (\A k \in 1..Len(data) : data[k].a = 0) => sharpenOutput = data
            /\ \A k \in SharpenedPixels :
                  /\ sharpenOutput[k].r =
                        SharpenedValue(sharpenVariant, data[k].r,
                            data[k - w].r + data[k + w].r + data[k - 1].r + data[k + 1].r)
                  /\ sharpenOutput[k].g =
                        SharpenedValue(sharpenVariant, data[k].g,
                            data[k - w].g + data[k + w].g + data[k - 1].g + data[k + 1].g)
                  /\ sharpenOutput[k].b =
                        SharpenedValue(sharpenVariant, data[k].b,
                            data[k - w].b + data[k + w].b + data[k - 1].b + data[k + 1].b)

\* a raster 4 wide and 3 high was sharpened: both interior pixels were
\* written with new colours, next to each other, and a border pixel of
\* alpha 0 kept its colour
C13_Witness ==
    /\ pc = "sharpened"
    /\ sharpenInput.width = 4
    /\ sharpenInput.height = 3
    /\ SharpenedPixels = {6, 7}
    /\ sharpenOutput[6] # sharpenInput.data[6]
    /\ sharpenOutput[7] # sharpenInput.data[7]
    /\ sharpenInput.data[1].a = 0
    /\ sharpenOutput[1] = sharpenInput.data[1]

---------------------------------------------------------------------------
(* resizeToTarget *)

\* rasters whose full-frame crop is wider than 7650 : 1 or taller than
\* 1 : 9180, and the raster at the first of those ratios
ExtremeSizes == {<<7650, 1>>, <<7651, 1>>, <<1, 9181>>}

ResizeSizes == ImageSizes \cup ExtremeSizes

InitResize ==
    /\ pc = "loaded"
    /\ IdleAlpha
    /\ IdleServe
    /\ IdlePoll
    /\ IdleStepped
    /\ IdleCalls
    /\ IdleSubmit
    /\ IdleFringe
    /\ IdleRemove
    /\ IdleRescale
    /\ IdleBounds
    /\ IdleUpscale
    /\ IdleCanvas
    /\ IdleFusion
    /\ IdleGenerate
    /\ IdleClean
    /\ IdleSharpen
    /\ \E size \in ResizeSizes :
         /\ originalImg = [naturalWidth |-> size[1], naturalHeight |-> size[2]]
         /\ \E b \in BoxesOf(size[1], size[2]) :
              /\ b.left <= b.right
              /\ b.top <= b.bottom
              /\ contentBounds = b
    /\ plan = None
    /\ placement = None

\* where centerOnFinalCanvas draws a canvas of the given size
Placement(canvas) ==
    [offsetX |-> CenterOffset(TARGET_WIDTH, canvas.width),
     offsetY |-> CenterOffset(TARGET_HEIGHT, canvas.height),
     width |-> canvas.width,
     height |-> canvas.height]

\* resizeToTarget from the decoded image to the final canvas:
\* calculateCropAndTarget, multiStepUpscale, cleanEdges, centerOnFinalCanvas.
\* A target of width or height 0 gives a canvas without pixels, on which
\* getImageData (in cleanEdges) and drawImage from it throw: the call rejects.
ResizeToTarget ==
    /\ pc = "loaded"
    /\ LET p == calculateCropAndTarget(originalImg, contentBounds)
           scaledCanvas == FinalCanvasSize([w |-> p.contentWidth, h |-> p.contentHeight],
                                           [srcW |-> p.contentWidth, srcH |-> p.contentHeight,
                                            targetW |-> p.scaledW, targetH |-> p.scaledH])
       IN  /\ plan' = p
           /\ IF scaledCanvas.width = 0 \/ scaledCanvas.height = 0
              THEN /\ placement' = None
                   /\ pc' = "rejected"
              ELSE /\ placement' = Placement(scaledCanvas)
                   /\ pc' = "resized"
    /\ UNCHANGED <<originalImg, contentBounds,
                   boundsVars, upscaleVars, canvasVars, fusionVars,
                   generateVars, cleanVars, sharpenVars, rescaleVars,
                   removeVars, fringeVars, submitVars, callVars,
                   steppedVars, pollVars, serveVars, alphaVars>>

NextResize == ResizeToTarget

SpecResize == InitResize /\ [][NextResize]_vars

\* C15: the content rectangle that resizeToTarget places lies inside the
\* 4500 x 5400 canvas, with a margin of at least 337 pixels on the left and
\* on the right and of at least 405 pixels above and below.
C15_ContentInsideWithMargins ==
    pc = "resized" =>
        /\ placement.width = plan.scaledW
        /\ placement.height = plan.scaledH
        /\ placement.offsetX >= 0
        /\ placement.offsetY >= 0
        /\ placement.offsetX + placement.width <= 4500
        /\ placement.offsetY + placement.height <= 5400
        /\ placement.offsetX >= 337
        /\ 4500 - (placement.offsetX + placement.width) >= 337
        /\ placement.offsetY >= 405
        /\ 5400 - (placement.offsetY + placement.height) >= 405

\* the generated 1024 x 1536 raster with content over its whole width and
\* a narrow band of its height: the content is 3825 wide and the right
\* margin is exactly 337
C15_Witness ==
    /\ pc = "resized"
    /\ originalImg = [naturalWidth |-> 1024, naturalHeight |-> 1536]
    /\ placement.width = 3825
    /\ placement.offsetX = 338
    /\ 4500 - (placement.offsetX + placement.width) = 337
    /\ placement.height < 4590

\* C16: for every non-empty crop rectangle, calculateCropAndTarget returns
\* scaledW >= 1 and scaledH >= 1.
C16_ScaledAtLeastOne ==
    pc \in {"resized", "rejected"} =>
        /\ plan.contentWidth >= 1
        /\ plan.contentHeight >= 1
        /\ plan.scaledW >= 1
        /\ plan.scaledH >= 1

---------------------------------------------------------------------------
(* processEsrgan8x and processEsrganWithAlpha: the crop of the external raster *)

\* esrganScale as a fraction: the 8x and 4x upscalers, no scaling, and
\* scales that are not integers
ScaleFractions == {<<1, 1>>, <<2, 1>>, <<4, 1>>, <<8, 1>>, <<3, 2>>, <<1, 2>>, <<5, 4>>}

\* the original rasters: small ones, the generated image, a square one and
\* one whose aspect fit has width 0
RescaleSizes == ((1..MaxSide) \X (1..MaxSide))
                    \cup {<<1024, 1536>>, <<1024, 1024>>, <<1, 9181>>}

\* distances from a raster edge that a box coordinate takes here
RescaleCoords(n) == {c \in 0..(n - 1) : c \in {0, 1, 2, 38, 39} \/ (n - 1 - c) \in {0, 1, 2}}

RescaleBoxes(w, h) ==
    {[left |-> l, top |-> t, right |-> r, bottom |-> b] :
        l \in RescaleCoords(w), r \in RescaleCoords(w),
        t \in RescaleCoords(h), b \in RescaleCoords(h)}

InitRescale ==
    /\ pc = "decoded"
    /\ IdleAlpha
    /\ IdleServe
    /\ IdlePoll
    /\ IdleStepped
    /\ IdleCalls
    /\ IdleSubmit
    /\ IdleFringe
    /\ IdleRemove
    /\ IdleBounds
    /\ IdleUpscale
    /\ IdleCanvas
    /\ IdleFusion
    /\ IdleGenerate
    /\ IdleClean
    /\ IdleSharpen
    /\ IdleResize
    /\ \E size \in RescaleSizes, s \in ScaleFractions :
         /\ (size[1] * s[1]) % s[2] = 0
         /\ (size[2] * s[1]) % s[2] = 0
         /\ originalImg = [naturalWidth |-> size[1], naturalHeight |-> size[2]]
         /\ esrganImg = [naturalWidth |-> (size[1] * s[1]) \div s[2],
                         naturalHeight |-> (size[2] * s[1]) \div s[2]]
         /\ \E b \in RescaleBoxes(size[1], size[2]) :
              /\ b.left <= b.right
              /\ b.top <= b.bottom
              /\ contentBounds = b
    /\ plan = None
    /\ esrganCrop = None
    /\ mergeInputs = None

\* Math.round(length * esrganScale), esrganScale = esrganImg.naturalWidth /
\* originalImg.naturalWidth
RescaleLength(length, external, original) ==
    RoundMulQuot(length, external.naturalWidth, original.naturalWidth)

\* esrganCropLeft, esrganCropTop, esrganCropWidth, esrganCropHeight
EsrganCrop(p, external, original) ==
    [left |-> RescaleLength(p.cropLeft, external, original),
     top |-> RescaleLength(p.cropTop, external, original),
     width |-> RescaleLength(p.contentWidth, external, original),
     height |-> RescaleLength(p.contentHeight, external, original)]

\* the mutant of ScaledEsrganSize: the canvas has the size of the crop
ScaledEsrganSizeOfCrop(p, crop) == [width |-> crop.width, height |-> crop.height]

\* scaledEsrganCanvas.width = scaledW; scaledEsrganCanvas.height = scaledH
ScaledEsrganSize(p, crop) == [width |-> p.scaledW, height |-> p.scaledH]

\* the fusion from the two decoded images to the start of the merge loop.
\* With a target of width or height 0 getImageData throws and the call
\* rejects.
RescaleExternal ==
    /\ pc = "decoded"
    /\ LET p == calculateCropAndTarget(originalImg, contentBounds)
           originalUpscaled ==
               FinalCanvasSize([w |-> p.contentWidth, h |-> p.contentHeight],
                               [srcW |-> p.contentWidth, srcH |-> p.contentHeight,
                                targetW |-> p.scaledW, targetH |-> p.scaledH])
           crop == EsrganCrop(p, esrganImg, originalImg)
       IN  /\ plan' = p
           /\ IF p.scaledW = 0 \/ p.scaledH = 0
              THEN /\ esrganCrop' = None
                   /\ mergeInputs' = None
                   /\ pc' = "rejected"
              ELSE /\ esrganCrop' = crop
                   /\ mergeInputs' = [original |-> originalUpscaled,
                                      external |-> ScaledEsrganSize(p, crop)]
                   /\ pc' = "cropped"
    /\ UNCHANGED <<originalImg, contentBounds, esrganImg,
                   boundsVars, upscaleVars, canvasVars, fusionVars,
                   generateVars, cleanVars, sharpenVars, resizeVars,
                   removeVars, fringeVars, submitVars, callVars,
                   steppedVars, pollVars, serveVars, alphaVars>>

NextRescale == RescaleExternal

SpecRescale == InitRescale /\ [][NextRescale]_vars

\* the crop rectangle of the external raster lies inside that raster
EsrganCropInside ==
    /\ esrganCrop.left >= 0
    /\ esrganCrop.top >= 0
    /\ esrganCrop.left + esrganCrop.width <= esrganImg.naturalWidth
    /\ esrganCrop.top + esrganCrop.height <= esrganImg.naturalHeight

\* the external raster is an integer multiple of the original one
IsIntegerScale == esrganImg.naturalWidth % originalImg.naturalWidth = 0

\* C17 as claimed: for every uniformly scaled external raster the rescaled
\* crop rectangle lies inside the external raster, and both rasters that
\* enter the merge loop have scaledW x scaledH pixels.
C17_CropInsideForEveryScale ==
    pc = "cropped" =>
        /\ EsrganCropInside
        /\ mergeInputs.original = [width |-> plan.scaledW, height |-> plan.scaledH]
        /\ mergeInputs.external = [width |-> plan.scaledW, height |-> plan.scaledH]

\* C17: when the external raster is an integer multiple of the original
\* one the rescaled crop rectangle lies inside the external raster; for
\* every uniform scale it reaches at most one pixel beyond the right and
\* bottom edges; and both rasters that enter the merge loop have
\* scaledW x scaledH pixels.
C17_CropInsideForIntegerScale ==
    pc = "cropped" =>
        /\ IsIntegerScale => EsrganCropInside
        /\ esrganCrop.left >= 0
        /\ esrganCrop.top >= 0
        /\ esrganCrop.left + esrganCrop.width <= esrganImg.naturalWidth + 1
        /\ esrganCrop.top + esrganCrop.height <= esrganImg.naturalHeight + 1
        /\ mergeInputs.original = [width |-> plan.scaledW, height |-> plan.scaledH]
        /\ mergeInputs.external = [width |-> plan.scaledW, height |-> plan.scaledH]

\* the 8x upscale of the generated image, 8192 x 12288, cropped at
\* 8 x (1, 1) down to its right and bottom edges
C17_Witness ==
    /\ pc = "cropped"
    /\ originalImg = [naturalWidth |-> 1024, naturalHeight |-> 1536]
    /\ esrganImg = [naturalWidth |-> 8192, naturalHeight |-> 12288]
    /\ plan.cropLeft = 1
    /\ plan.cropTop = 1
    /\ esrganCrop = [left |-> 8, top |-> 8, width |-> 8184, height |-> 12280]
    /\ mergeInputs.external.height = 4590

---------------------------------------------------------------------------
(* removeBackground *)

\* the largest number of pixels of a segmentation mask
MaxMaskPixels == 2

\* the values of result[0].mask.data
MaskValues == {0, 1, 255}

Masks == UNION {[1..n -> MaskValues] : n \in 1..MaxMaskPixels}

\* data[i * 4 + 3] = Math.round((1 - mask.data[i]) * 255), stored in a
\* Uint8ClampedArray
MaskAlpha(m) == Max(0, Min(255, (1 - m) * 255))

\* onProgress?.(p): nothing is reported when no callback was passed
Report(seq, withCallback, p) == IF withCallback THEN Append(seq, p) ELSE seq

\* the mutant of ReportBlob: 100 is reported before the blob is looked at
ReportBlobAlways(seq, withCallback, blobOk) == Report(seq, withCallback, 100)

\* the callback of toBlob: if (blob) { onProgress?.(100); ... }
ReportBlob(seq, withCallback, blobOk) ==
    IF blobOk THEN Report(seq, withCallback, 100) ELSE seq

InitRemove ==
    /\ pc = "ready"
    /\ IdleAlpha
    /\ IdleServe
    /\ IdlePoll
    /\ IdleStepped
    /\ IdleCalls
    /\ IdleSubmit
    /\ IdleFringe
    /\ IdleBounds
    /\ IdlePlan
    /\ IdleUpscale
    /\ IdleCanvas
    /\ IdleFusion
    /\ IdleGenerate
    /\ IdleClean
    /\ IdleSharpen
    /\ IdleResize
    /\ IdleRescale
    /\ segmenter = "null"
    /\ withProgress = FALSE
    /\ reported = <<>>
    /\ maskData = <<>>
    /\ removed = <<>>

RemoveUnchanged ==
    UNCHANGED <<boundsVars, planVars, upscaleVars, canvasVars, fusionVars,
                generateVars, cleanVars, sharpenVars, resizeVars, rescaleVars,
                fringeVars, submitVars, callVars, steppedVars,
                pollVars, serveVars, alphaVars>>

\* a call of removeBackground, up to its first await
RemoveBackground ==
    /\ pc \in {"ready", "resolved", "rejected"}
    /\ \E cb \in BOOLEAN :
         /\ withProgress' = cb
         /\ IF segmenter = "null"
            THEN /\ reported' = Report(Report(<<>>, cb, 5), cb, 10)
                 /\ pc' = "loadingModel"
            ELSE /\ reported' = Report(Report(<<>>, cb, 5), cb, 30)
                 /\ pc' = "loadingImage"
    /\ maskData' = <<>>
    /\ removed' = <<>>
    /\ UNCHANGED segmenter
    /\ RemoveUnchanged

\* await pipeline(...) settles
ModelSettles ==
    /\ pc = "loadingModel"
    /\ \/ /\ segmenter' = "loaded"
          /\ reported' = Report(reported, withProgress, 30)
          /\ pc' = "loadingImage"
       \/ /\ pc' = "rejected"
          /\ UNCHANGED <<segmenter, reported>>
    /\ UNCHANGED <<withProgress, maskData, removed>>
    /\ RemoveUnchanged

\* await loadImage(imageBlob) settles; then the canvas is drawn
ImageSettles ==
    /\ pc = "loadingImage"
    /\ \/ /\ reported' = Report(reported, withProgress, 40)
          /\ pc' = "segmenting"
       \/ /\ pc' = "rejected"
          /\ UNCHANGED reported
    /\ UNCHANGED <<segmenter, withProgress, maskData, removed>>
    /\ RemoveUnchanged

\* await segmenter(imageData) settles; then the mask is applied
SegmenterSettles ==
    /\ pc = "segmenting"
    /\ \/ \E mask \in Masks :
            /\ maskData' = mask
            /\ reported' = Report(Report(reported, withProgress, 70), withProgress, 90)
            /\ pc' = "encoding"
       \/ \* Invalid segmentation result, or no output context
          /\ reported' = Report(reported, withProgress, 70)
          /\ pc' = "rejected"
          /\ UNCHANGED maskData
       \/ \* the segmenter rejects
          /\ pc' = "rejected"
          /\ UNCHANGED <<reported, maskData>>
    /\ UNCHANGED <<segmenter, withProgress, removed>>
    /\ RemoveUnchanged

\* the callback of outputCanvas.toBlob
BlobSettles ==
    /\ pc = "encoding"
    /\ \E blobOk \in BOOLEAN :
         /\ reported' = ReportBlob(reported, withProgress, blobOk)
         /\ IF blobOk
            THEN /\ removed' = [i \in 1..Len(maskData) |-> MaskAlpha(maskData[i])]
                 /\ pc' = "resolved"
            ELSE /\ removed' = <<>>
                 /\ pc' = "rejected"
    /\ UNCHANGED <<segmenter, withProgress, maskData>>
    /\ RemoveUnchanged

NextRemove ==
    \/ RemoveBackground
    \/ ModelSettles
    \/ ImageSettles
    \/ SegmenterSettles
    \/ BlobSettles

SpecRemove == InitRemove /\ [][NextRemove]_vars

\* C19: in a call of removeBackground with a progress callback the reported
\* percentages are non-decreasing and within 0..100; 100 is reported only
\* by a call that resolves, as its last value; and the alphas of the result
\* are those of the mask whether or not a callback was passed.
C19_ProgressMonotone ==
    /\ \A i \in 1..Len(reported) :
          /\ 0 <= reported[i] /\ reported[i] <= 100
          /\ i > 1 => reported[i - 1] <= reported[i]
    /\ (\E i \in 1..Len(reported) : reported[i] = 100) => pc = "resolved"
    /\ (pc = "resolved" /\ withProgress) => reported[Len(reported)] = 100
    /\ ~withProgress => reported = <<>>
    /\ pc = "resolved" =>
          /\ Len(removed) = Len(maskData)
          /\ \A i \in 1..Len(maskData) :
                removed[i] = IF maskData[i] = 0 THEN 255 ELSE 0

\* a call with a callback resolved after loading the model
C19_Witness ==
    /\ pc = "resolved"
    /\ withProgress
    /\ reported = <<5, 10, 30, 40, 70, 90, 100>>
    /\ removed = <<255, 0>>

---------------------------------------------------------------------------
(* cleanAlphaEdges, the neighbourhood mode of the fringe cleaner *)

\* a fringe pixel has alpha strictly between these two
FRINGE_ALPHA_LOW == 10
FRINGE_ALPHA_HIGH == 240
\* a neighbour is solid above the first and transparent below the second
SOLID_ALPHA_ABOVE == 200
TRANSPARENT_ALPHA_BELOW == 30
\* the number of neighbours that decides
NEIGHBOUR_MAJORITY == 5
\* the threshold on the own alpha when the neighbours do not decide
FRINGE_BINARY_THRESHOLD == 128

\* the largest raster that is cleaned
MaxFringeW == 4
MaxFringeH == 3
\* the number of colour patterns of the cleaned rasters
MaxFringeColours == 2

IsFringe(a) == FRINGE_ALPHA_LOW < a /\ a < FRINGE_ALPHA_HIGH

\* the indexes of the eight neighbours of the interior pixel of index k
Neighbours(image, k) ==
    {k + dx + dy * image.width : dx \in {-1, 0, 1}, dy \in {-1, 0, 1}} \ {k}

SolidNeighbours(image, k) ==
    {n \in Neighbours(image, k) : image.data[n].a > SOLID_ALPHA_ABOVE}

TransparentNeighbours(image, k) ==
    {n \in Neighbours(image, k) : image.data[n].a < TRANSPARENT_ALPHA_BELOW}

RECURSIVE SumOver(_, _)
SumOver(f, S) ==
    IF S = {} THEN 0
    ELSE LET n == CHOOSE n \in S : TRUE IN f[n] + SumOver(f, S \ {n})

\* the ways an average is stored in an 8-bit channel
Roundings == {"floor", "nearest"}

\* the average of one channel over the solid neighbours
AverageChannel(sum, count, rounding) ==
    IF rounding = "floor" THEN sum \div count ELSE RoundHalfUp(sum, count)

\* the mutant of IsTransparentMajority: the transparent neighbours never decide
IsTransparentMajorityNever(count) == FALSE

IsTransparentMajority(count) == count >= NEIGHBOUR_MAJORITY

\* what one iteration writes for the pixel of index k, read from the snapshot
CleanAlphaPixel(image, k, rounding) ==
    LET p == image.data[k]
        solid == SolidNeighbours(image, k)
        avg(get(_)) == AverageChannel(SumOver([n \in solid |-> get(image.data[n])], solid),
                                      Cardinality(solid), rounding)
        R(q) == q.r
        G(q) == q.g
        B(q) == q.b
    IN  IF ~IsInterior(image, (k - 1) % image.width, (k - 1) \div image.width)
             \/ ~IsFringe(p.a)
        THEN p
        ELSE IF IsTransparentMajority(Cardinality(TransparentNeighbours(image, k)))
        THEN [p EXCEPT !.a = 0]
        ELSE IF Cardinality(solid) >= NEIGHBOUR_MAJORITY
        THEN [r |-> avg(R), g |-> avg(G), b |-> avg(B), a |-> 255]
        ELSE [p EXCEPT !.a = IF p.a < FRINGE_BINARY_THRESHOLD THEN 0 ELSE 255]

\* one iteration of cleanAlphaEdges: every pixel is computed from the input
cleanAlphaEdges(image, rounding) ==
    [k \in 1..Len(image.data) |-> CleanAlphaPixel(image, k, rounding)]

\* alpha of the pixel of index k of a border of pattern p
FringeBorderAlpha(p, k) ==
    CASE p = 0 -> 0
      [] p = 1 -> 255
      [] p = 2 -> IF k % 2 = 0 THEN 255 ELSE 0
      [] p = 3 -> IF k <= 5 THEN 255 ELSE 0
      [] p = 4 -> 100
      [] OTHER -> IF k % 3 = 0 THEN 0 ELSE 255

FringeBorders == 0..5

FringeInteriorAlphas == {0, FRINGE_ALPHA_LOW + 1, FRINGE_BINARY_THRESHOLD - 1,
                         FRINGE_BINARY_THRESHOLD, FRINGE_ALPHA_HIGH, 255}

FringeImages ==
    UNION {
      LET shape == [width |-> w, height |-> h]
          n == w * h
          xOf(k) == (k - 1) % w
          yOf(k) == (k - 1) \div w
          interior == {k \in 1..n : IsInterior(shape, xOf(k), yOf(k))}
      IN  {[width |-> w, height |-> h,
            data |-> [k \in 1..n |->
                        Rgba(SharpenColour(c, xOf(k), yOf(k)),
                             IF k \in interior THEN alphas[k]
                             ELSE FringeBorderAlpha(p, k))]] :
             c \in 1..MaxFringeColours,
             p \in FringeBorders,
             alphas \in [interior -> FringeInteriorAlphas]}
      : w \in 3..MaxFringeW, h \in 3..MaxFringeH}

InitFringe ==
    /\ pc = "masked"
    /\ IdleAlpha
    /\ IdleServe
    /\ IdlePoll
    /\ IdleStepped
    /\ IdleCalls
    /\ IdleSubmit
    /\ IdleBounds
    /\ IdlePlan
    /\ IdleUpscale
    /\ IdleCanvas
    /\ IdleFusion
    /\ IdleGenerate
    /\ IdleClean
    /\ IdleSharpen
    /\ IdleResize
    /\ IdleRescale
    /\ IdleRemove
    /\ fringeRounding \in Roundings
    /\ fringeInput \in FringeImages
    /\ fringeOutput = fringeInput.data

\* one iteration; fringeInput keeps the raster the iteration read
CleanAlphaEdges ==
    /\ pc \in {"masked", "iterated"}
    /\ fringeInput' = [fringeInput EXCEPT !.data = fringeOutput]
    /\ fringeOutput' = cleanAlphaEdges(fringeInput', fringeRounding)
    /\ pc' = IF pc = "masked" THEN "iterated" ELSE "iteratedAgain"
    /\ UNCHANGED <<fringeRounding,
                   boundsVars, planVars, upscaleVars, canvasVars, fusionVars,
                   generateVars, cleanVars, sharpenVars, resizeVars, rescaleVars,
                   removeVars, submitVars, callVars, steppedVars,
                   pollVars, serveVars, alphaVars>>

NextFringe == CleanAlphaEdges

SpecFringe == InitFringe /\ [][NextFringe]_vars

\* the interior pixels of alpha 128 whose eight neighbours all have alpha a
IsolatedFringePixels(a) ==
    {k \in 1..Len(fringeInput.data) :
        /\ IsInterior(fringeInput, (k - 1) % fringeInput.width,
                                   (k - 1) \div fringeInput.width)
        /\ fringeInput.data[k].a = 128
        /\ \A n \in Neighbours(fringeInput, k) : fringeInput.data[n].a = a}

\* C20: after one iteration an interior pixel of alpha 128 whose eight
\* neighbours all have alpha 0 has alpha 0, and one whose eight neighbours
\* all have alpha 255 has alpha 255 and, in each channel, the average of
\* the eight neighbours as an 8-bit value (less than 1 away from it).
C20_IsolatedFringePixel ==
    pc \in {"iterated", "iteratedAgain"} =>
        /\ \A k \in IsolatedFringePixels(0) : fringeOutput[k].a = 0
        /\ \A k \in IsolatedFringePixels(255) :
              LET ns == Neighbours(fringeInput, k)
                  data == fringeInput.data
                  near(c, sum) == sum - 8 < 8 * c /\ 8 * c < sum + 8
              IN  /\ fringeOutput[k].a = 255
                  /\ near(fringeOutput[k].r, SumOver([n \in ns |-> data[n].r], ns))
                  /\ near(fringeOutput[k].g, SumOver([n \in ns |-> data[n].g], ns))
                  /\ near(fringeOutput[k].b, SumOver([n \in ns |-> data[n].b], ns))

\* an iteration ran on a 3 x 3 raster whose centre had alpha 128 and whose
\* border was opaque: the centre is opaque with a new colour
C20_Witness ==
    /\ pc = "iterated"
    /\ fringeInput.width = 3
    /\ IsolatedFringePixels(255) = {5}
    /\ fringeOutput[5].a = 255
    /\ fringeOutput[5].r # fringeInput.data[5].r

---------------------------------------------------------------------------
(* generate of the earlier revision of the hook: one progress timer declared
   inside the try block, one upscaleImage call; one invocation *)

\* Math.random() * 3 is observed at these whole values
RandomIncrements == {0, 1, 2}
\* the percentages upscaleImage is observed to report
UpscaleReports == {0, 30, 75, 100}

InitEarlyHook ==
    /\ pc = "mountedEarly"
    /\ IdleAlpha
    /\ IdleServe
    /\ IdlePoll
    /\ IdleStepped
    /\ IdleCalls
    /\ IdleSubmit
    /\ IdleFringe
    /\ IdleRemove
    /\ IdleRescale
    /\ IdleResize
    /\ IdleSharpen
    /\ IdleClean
    /\ IdleBounds
    /\ IdlePlan
    /\ IdleUpscale
    /\ IdleCanvas
    /\ IdleFusion
    /\ generationStep = "idle"
    /\ currentStepIndex = -1
    /\ progress = 0
    /\ progressInterval = "null"
    /\ response = [status |-> 0]
    /\ designs = None
    /\ elapsed = None
    /\ edge = None
    /\ branches = None
    /\ loads = None
    /\ encodes = None

EarlyUnchanged ==
    UNCHANGED <<designs, elapsed, edge, branches, loads, encodes,
                boundsVars, planVars, upscaleVars, canvasVars, fusionVars,
                cleanVars, sharpenVars, resizeVars, rescaleVars,
                removeVars, fringeVars, submitVars, callVars,
                steppedVars, pollVars, serveVars, alphaVars>>

\* the full reset before the 50 ms wait
EarlyReset ==
    /\ pc = "mountedEarly"
    /\ generationStep' = "idle"
    /\ currentStepIndex' = -1
    /\ progress' = 0
    /\ pc' = "resettingEarly"
    /\ UNCHANGED <<progressInterval, response>>
    /\ EarlyUnchanged

\* from the end of the wait to the call of the edge function
EarlyBegin ==
    /\ pc = "resettingEarly"
    /\ generationStep' = "generating"
    /\ currentStepIndex' = 0
    /\ progress' = 0
    /\ progressInterval' = "active"
    /\ pc' = "invokingEarly"
    /\ UNCHANGED response
    /\ EarlyUnchanged

\* setProgress(prev => prev < 45 ? prev + Math.random() * 3 : prev)
EarlyTick ==
    /\ progressInterval = "active"
    /\ \E r \in RandomIncrements :
         progress' = IF progress < 45 THEN progress + r ELSE progress
    /\ UNCHANGED <<pc, generationStep, currentStepIndex, progressInterval, response>>
    /\ EarlyUnchanged

\* the edge function answers
EarlyServe ==
    /\ pc = "invokingEarly"
    /\ response.status = 0
    /\ \E generate \in {"ok", "rateLimited", "failed"} :
         response' = EdgeResponse(generate, "ok", "ok", {})
    /\ UNCHANGED <<pc, generationStep, currentStepIndex, progress, progressInterval>>
    /\ EarlyUnchanged

\* the catch block: the timer is a constant of the try block, out of scope here
EarlyCatch ==
    /\ generationStep' = "error"
    /\ progress' = 0
    /\ pc' = "finishedEarly"
    /\ UNCHANGED <<currentStepIndex, response>>
    /\ EarlyUnchanged

\* the invoke itself throws: clearInterval is not reached
EarlyInvokeThrows ==
    /\ pc = "invokingEarly"
    /\ response.status = 0
    /\ UNCHANGED progressInterval
    /\ EarlyCatch

\* the invoke returned an error: clearInterval, then throw
EarlyInvokeFails ==
    /\ pc = "invokingEarly"
    /\ response.status \in {429, 500}
    /\ progressInterval' = clearInterval(progressInterval)
    /\ EarlyCatch

\* the invoke returned the image: clearInterval, the preview, then upscaleImage
EarlyInvokeReturns ==
    /\ pc = "invokingEarly"
    /\ response.status = 200
    /\ progressInterval' = clearInterval(progressInterval)
    /\ progress' = 50
    /\ generationStep' = "upscaling"
    /\ currentStepIndex' = 1
    /\ pc' = "upscalingEarly"
    /\ UNCHANGED response
    /\ EarlyUnchanged

\* the progress callback given to upscaleImage: Math.round(50 + p * 0.5)
EarlyUpscaleProgress ==
    /\ pc = "upscalingEarly"
    /\ \E p \in UpscaleReports : progress' = 50 + ((p + 1) \div 2)
    /\ UNCHANGED <<pc, generationStep, currentStepIndex, progressInterval, response>>
    /\ EarlyUnchanged

\* upscaleImage resolved
EarlyUpscaleResolves ==
    /\ pc = "upscalingEarly"
    /\ generationStep' = "complete"
    /\ currentStepIndex' = 2
    /\ progress' = 100
    /\ pc' = "finishedEarly"
    /\ UNCHANGED <<progressInterval, response>>
    /\ EarlyUnchanged

\* upscaleImage rejected
EarlyUpscaleRejects ==
    /\ pc = "upscalingEarly"
    /\ UNCHANGED progressInterval
    /\ EarlyCatch

NextEarlyHook ==
    \/ EarlyReset
    \/ EarlyBegin
    \/ EarlyTick
    \/ EarlyServe
    \/ EarlyInvokeThrows
    \/ EarlyInvokeFails
    \/ EarlyInvokeReturns
    \/ EarlyUpscaleProgress
    \/ EarlyUpscaleResolves
    \/ EarlyUpscaleRejects

SpecEarlyHook == InitEarlyHook /\ [][NextEarlyHook]_vars

\* C23: once a generation has reached 'complete' or 'error', also when the
\* generate-design call threw, the progress timer it started has been
\* cleared, so no later tick changes progress or step.
C23_TimerClearedAtEnd ==
    generationStep \in {"complete", "error"} => progressInterval = "null"

---------------------------------------------------------------------------
(* PromptInput and generate: submissions interleaved with the steps of the
   invocations they start *)

\* this many submissions are attempted
MaxInvocations == 3
Invocations == 1..MaxInvocations

\* isProcessing of the hook, passed to PromptInput as isLoading
isProcessing == generationStep \notin {"idle", "complete", "error"}

\* the invocations of generate that have started and not ended
InProgress == {i \in Invocations : invocations[i] \in {"waiting", "invoking", "processing"}}

InitSubmit ==
    /\ pc = "page"
    /\ IdleAlpha
    /\ IdleServe
    /\ IdlePoll
    /\ IdleStepped
    /\ IdleCalls
    /\ IdleBounds
    /\ IdlePlan
    /\ IdleUpscale
    /\ IdleCanvas
    /\ IdleFusion
    /\ IdleClean
    /\ IdleSharpen
    /\ IdleResize
    /\ IdleRescale
    /\ IdleRemove
    /\ IdleFringe
    /\ invocations = [i \in Invocations |-> "notSubmitted"]
    /\ generationStep = "idle"
    /\ currentStepIndex = -1
    /\ progress = 0
    /\ designs = None
    /\ progressInterval = None
    /\ elapsed = None
    /\ edge = None
    /\ response = None
    /\ branches = None
    /\ loads = None
    /\ encodes = None

SubmitUnchanged ==
    UNCHANGED <<pc, designs, progressInterval, elapsed, edge, response, branches,
                loads, encodes,
                boundsVars, planVars, upscaleVars, canvasVars, fusionVars,
                cleanVars, sharpenVars, resizeVars, rescaleVars, removeVars,
                fringeVars, callVars, steppedVars, pollVars, serveVars,
                alphaVars>>

\* handleSubmit of PromptInput with a non-empty prompt, and generate up to
\* its first await: the reset to 'idle'
HandleSubmit(i) ==
    /\ invocations[i] = "notSubmitted"
    /\ ~isProcessing
    /\ generationStep' = "idle"
    /\ currentStepIndex' = -1
    /\ progress' = 0
    /\ invocations' = [invocations EXCEPT ![i] = "waiting"]
    /\ SubmitUnchanged

\* generate after the 50 ms wait, up to the awaited invoke
WaitEnds(i) ==
    /\ invocations[i] = "waiting"
    /\ generationStep' = "generating"
    /\ currentStepIndex' = 0
    /\ progress' = 0
    /\ invocations' = [invocations EXCEPT ![i] = "invoking"]
    /\ SubmitUnchanged

\* the catch block of generate
SubmissionFails(i) ==
    /\ invocations[i] \in {"invoking", "processing"}
    /\ generationStep' = "error"
    /\ progress' = 0
    /\ invocations' = [invocations EXCEPT ![i] = "ended"]
    /\ UNCHANGED currentStepIndex
    /\ SubmitUnchanged

\* generate after the invoke returned the image, up to the awaited Promise.all
SubmissionProcesses(i) ==
    /\ invocations[i] = "invoking"
    /\ generationStep' = "upscaling"
    /\ currentStepIndex' = 2
    /\ progress' = 73
    /\ invocations' = [invocations EXCEPT ![i] = "processing"]
    /\ SubmitUnchanged

\* generate after Promise.all resolved
SubmissionCompletes(i) ==
    /\ invocations[i] = "processing"
    /\ generationStep' = "complete"
    /\ currentStepIndex' = 3
    /\ progress' = 100
    /\ invocations' = [invocations EXCEPT ![i] = "ended"]
    /\ SubmitUnchanged

NextSubmit ==
    \E i \in Invocations :
        \/ HandleSubmit(i)
        \/ WaitEnds(i)
        \/ SubmissionFails(i)
        \/ SubmissionProcesses(i)
        \/ SubmissionCompletes(i)

SpecSubmit == InitSubmit /\ [][NextSubmit]_vars

\* C24: when every submission goes through PromptInput, at most one
\* invocation of generate is in progress at any time.
C24_OneInvocationAtATime == Cardinality(InProgress) <= 1

---------------------------------------------------------------------------
(* removeBackground: calls interleaved at their awaits, sharing the module
   variable segmenter *)

\* this many calls of removeBackground are made
MaxCalls == 3
Calls == 1..MaxCalls

InitCalls ==
    /\ pc = "imported"
    /\ IdleAlpha
    /\ IdleServe
    /\ IdlePoll
    /\ IdleStepped
    /\ IdleBounds
    /\ IdlePlan
    /\ IdleUpscale
    /\ IdleCanvas
    /\ IdleFusion
    /\ IdleGenerate
    /\ IdleClean
    /\ IdleSharpen
    /\ IdleResize
    /\ IdleRescale
    /\ IdleFringe
    /\ IdleSubmit
    /\ removeCalls = [c \in Calls |-> "notCalled"]
    /\ pipelineCalls = 0
    /\ segmenter = "null"
    /\ withProgress = None
    /\ reported = None
    /\ maskData = None
    /\ removed = None

CallsUnchanged ==
    UNCHANGED <<pc, withProgress, reported, maskData, removed,
                boundsVars, planVars, upscaleVars, canvasVars, fusionVars,
                generateVars, cleanVars, sharpenVars, resizeVars,
                rescaleVars, fringeVars, submitVars, steppedVars,
                pollVars, serveVars, alphaVars>>

\* removeBackground up to its first await: if (!segmenter) pipeline(...) is
\* invoked and awaited, else loadImage is awaited
CallRemoveBackground(c) ==
    /\ removeCalls[c] = "notCalled"
    /\ IF segmenter = "null"
       THEN /\ pipelineCalls' = pipelineCalls + 1
            /\ removeCalls' = [removeCalls EXCEPT ![c] = "loadingModel"]
       ELSE /\ pipelineCalls' = pipelineCalls
            /\ removeCalls' = [removeCalls EXCEPT ![c] = "running"]
    /\ UNCHANGED segmenter
    /\ CallsUnchanged

\* await pipeline(...) settles: the model is assigned to segmenter, or the
\* call rejects and segmenter stays null
PipelineSettles(c) ==
    /\ removeCalls[c] = "loadingModel"
    /\ \/ /\ segmenter' = "loaded"
          /\ removeCalls' = [removeCalls EXCEPT ![c] = "running"]
       \/ /\ removeCalls' = [removeCalls EXCEPT ![c] = "ended"]
          /\ UNCHANGED segmenter
    /\ UNCHANGED pipelineCalls
    /\ CallsUnchanged

\* the rest of the call, which does not write segmenter
CallEnds(c) ==
    /\ removeCalls[c] = "running"
    /\ removeCalls' = [removeCalls EXCEPT ![c] = "ended"]
    /\ UNCHANGED <<segmenter, pipelineCalls>>
    /\ CallsUnchanged

NextCalls ==
    \E c \in Calls :
        \/ CallRemoveBackground(c)
        \/ PipelineSettles(c)
        \/ CallEnds(c)

SpecCalls == InitCalls /\ [][NextCalls]_vars

\* C26: across any sequence and interleaving of removeBackground calls,
\* pipeline(...) is invoked at most once.
C26_ModelLoadedOnce == pipelineCalls <= 1

---------------------------------------------------------------------------
(* upscaleImage of the first revision: the stepped scaling loop *)

\* maxStepScale = 1.4 as MAX_STEP_NUM / MAX_STEP_DEN
MAX_STEP_NUM == 14
MAX_STEP_DEN == 10
\* the loop runs while a dimension is below 0.98 of its final size, the
\* fraction DONE_NUM / DONE_DEN
DONE_NUM == 98
DONE_DEN == 100
\* crops up to MaxCrop x MaxCrop are scaled; on these the exact arithmetic
\* below gives the values of the double arithmetic of the code
MaxCrop == 4
\* the loop is followed for this many iterations
MaxIterations == 30

\* finalContentWidth and finalContentHeight as wNum / den and hNum / den
FinalContent(contentWidth, contentHeight) ==
    IF contentWidth * maxContentHeight > contentHeight * maxContentWidth
    THEN [wNum |-> maxContentWidth * contentWidth,
          hNum |-> maxContentWidth * contentHeight,
          den |-> contentWidth]
    ELSE [wNum |-> maxContentHeight * contentWidth,
          hNum |-> maxContentHeight * contentHeight,
          den |-> contentHeight]

\* the condition of the while loop
BelowFinal(w, h, finalSize) ==
    \/ w * DONE_DEN * finalSize.den < DONE_NUM * finalSize.wNum
    \/ h * DONE_DEN * finalSize.den < DONE_NUM * finalSize.hNum

\* step = Math.min(maxStepScale, Math.max(scaleX, scaleY)) as a fraction
StepScale(w, h, finalSize) ==
    LET scaleX == [num |-> finalSize.wNum, den |-> finalSize.den * w]
        scaleY == [num |-> finalSize.hNum, den |-> finalSize.den * h]
        scale == IF scaleX.num * scaleY.den >= scaleY.num * scaleX.den
                 THEN scaleX ELSE scaleY
    IN IF MAX_STEP_DEN * scale.num > MAX_STEP_NUM * scale.den
       THEN [num |-> MAX_STEP_NUM, den |-> MAX_STEP_DEN]
       ELSE scale

\* targetW and targetH of one iteration
StepTarget(w, h, finalSize) ==
    LET stepBy == StepScale(w, h, finalSize)
    IN [width |-> Min(RoundHalfUp(finalSize.wNum, finalSize.den),
                      RoundHalfUp(w * stepBy.num, stepBy.den)),
        height |-> Min(RoundHalfUp(finalSize.hNum, finalSize.den),
                       RoundHalfUp(h * stepBy.num, stepBy.den))]

InitStepped ==
    /\ pc = "stepping"
    /\ IdleAlpha
    /\ IdleServe
    /\ IdlePoll
    /\ IdleBounds
    /\ IdlePlan
    /\ IdleUpscale
    /\ IdleCanvas
    /\ IdleFusion
    /\ IdleGenerate
    /\ IdleClean
    /\ IdleSharpen
    /\ IdleResize
    /\ IdleRescale
    /\ IdleRemove
    /\ IdleFringe
    /\ IdleSubmit
    /\ IdleCalls
    /\ contentSize \in (1..MaxCrop) \X (1..MaxCrop)
    /\ currentWidth = contentSize[1]
    /\ currentHeight = contentSize[2]
    /\ iterations = 0

\* one iteration of the while loop
StepIteration ==
    /\ pc = "stepping"
    /\ iterations < MaxIterations
    /\ LET finalSize == FinalContent(contentSize[1], contentSize[2])
       IN /\ BelowFinal(currentWidth, currentHeight, finalSize)
          /\ currentWidth' = StepTarget(currentWidth, currentHeight, finalSize).width
          /\ currentHeight' = StepTarget(currentWidth, currentHeight, finalSize).height
    /\ iterations' = iterations + 1
    /\ UNCHANGED <<pc, contentSize,
                   boundsVars, planVars, upscaleVars, canvasVars, fusionVars,
                   generateVars, cleanVars, sharpenVars, resizeVars,
                   rescaleVars, removeVars, fringeVars, submitVars, callVars,
                   pollVars, serveVars, alphaVars>>

\* the loop condition is false: sharpenCanvas follows
StepLoopEnds ==
    /\ pc = "stepping"
    /\ ~BelowFinal(currentWidth, currentHeight,
                   FinalContent(contentSize[1], contentSize[2]))
    /\ pc' = "stepped"
    /\ UNCHANGED <<contentSize, currentWidth, currentHeight, iterations,
                   boundsVars, planVars, upscaleVars, canvasVars, fusionVars,
                   generateVars, cleanVars, sharpenVars, resizeVars,
                   rescaleVars, removeVars, fringeVars, submitVars, callVars,
                   pollVars, serveVars, alphaVars>>

NextStepped == StepIteration \/ StepLoopEnds

SpecStepped == InitStepped /\ [][NextStepped]_vars

\* C28: each iteration of the stepped scaling loop strictly increases
\* currentWidth or currentHeight, for every non-empty crop, so the loop
\* terminates.
C28_IterationIncreases ==
    [][iterations' = iterations + 1
       => (currentWidth' > currentWidth \/ currentHeight' > currentHeight)]_vars

---------------------------------------------------------------------------
(* generate-design of the queue revision: the polling loop *)

maxAttempts == 60

\* what one iteration of the loop observed: the status response, the status
\* in its body and the result response
NoCheck == [response |-> "none", status |-> "none", result |-> "none"]

\* the mutant of ConsumeAttempt: the iteration is not counted
ConsumeAttemptSkipped(n) == n

\* attempts++
ConsumeAttempt(n) == n + 1

InitPoll ==
    /\ pc = "polling"
    /\ IdleAlpha
    /\ IdleServe
    /\ IdleBounds
    /\ IdlePlan
    /\ IdleUpscale
    /\ IdleCanvas
    /\ IdleFusion
    /\ IdleGenerate
    /\ IdleClean
    /\ IdleSharpen
    /\ IdleResize
    /\ IdleRescale
    /\ IdleRemove
    /\ IdleFringe
    /\ IdleSubmit
    /\ IdleCalls
    /\ IdleStepped
    /\ attempts = 0
    /\ statusChecks = 0
    /\ lastCheck = NoCheck
    /\ pollResult = "null"
    /\ pollError = "none"

PollUnchanged ==
    UNCHANGED <<boundsVars, planVars, upscaleVars, canvasVars, fusionVars,
                generateVars, cleanVars, sharpenVars, resizeVars,
                rescaleVars, removeVars, fringeVars, submitVars, callVars,
                steppedVars, serveVars, alphaVars>>

\* the head of an iteration: the loop condition, the wait, the status fetch
StatusCheck ==
    /\ pc = "polling"
    /\ attempts < maxAttempts
    /\ statusChecks' = statusChecks + 1

\* the status fetch or a body parse rejects: the exception leaves the loop
FetchRejects ==
    /\ StatusCheck
    /\ lastCheck' = [response |-> "rejected", status |-> "none", result |-> "none"]
    /\ pollError' = "fetch rejected"
    /\ pc' = "thrown"
    /\ UNCHANGED <<attempts, pollResult>>
    /\ PollUnchanged

\* if (!statusResponse.ok) { attempts++; continue; }
StatusNotOk ==
    /\ StatusCheck
    /\ lastCheck' = [response |-> "notOk", status |-> "none", result |-> "none"]
    /\ attempts' = ConsumeAttempt(attempts)
    /\ UNCHANGED <<pc, pollResult, pollError>>
    /\ PollUnchanged

\* status COMPLETED: the result is fetched; break when that response is ok,
\* else attempts++
StatusCompleted ==
    /\ StatusCheck
    /\ \E fetched \in {"ok", "notOk"} :
         /\ lastCheck' = [response |-> "ok", status |-> "COMPLETED", result |-> fetched]
         /\ IF fetched = "ok"
            THEN /\ pollResult' = "result"
                 /\ pc' = "returned"
                 /\ UNCHANGED attempts
            ELSE /\ attempts' = ConsumeAttempt(attempts)
                 /\ UNCHANGED <<pc, pollResult>>
    /\ UNCHANGED pollError
    /\ PollUnchanged

\* status FAILED: throw new Error('Image generation failed')
StatusFailed ==
    /\ StatusCheck
    /\ lastCheck' = [response |-> "ok", status |-> "FAILED", result |-> "none"]
    /\ pollError' = "Image generation failed"
    /\ pc' = "thrown"
    /\ UNCHANGED <<attempts, pollResult>>
    /\ PollUnchanged

\* any other status: attempts++
StatusPending ==
    /\ StatusCheck
    /\ \E status \in {"IN_QUEUE", "IN_PROGRESS"} :
         lastCheck' = [response |-> "ok", status |-> status, result |-> "none"]
    /\ attempts' = ConsumeAttempt(attempts)
    /\ UNCHANGED <<pc, pollResult, pollError>>
    /\ PollUnchanged

\* the loop condition is false: if (!result) throw the timeout
PollTimesOut ==
    /\ pc = "polling"
    /\ ~(attempts < maxAttempts)
    /\ pollError' = IF pollResult = "null"
                    THEN "Timeout waiting for image generation" ELSE pollError
    /\ pc' = IF pollResult = "null" THEN "thrown" ELSE "returned"
    /\ UNCHANGED <<attempts, statusChecks, lastCheck, pollResult>>
    /\ PollUnchanged

NextPoll ==
    \/ FetchRejects
    \/ StatusNotOk
    \/ StatusCompleted
    \/ StatusFailed
    \/ StatusPending
    \/ PollTimesOut

SpecPoll == InitPoll /\ [][NextPoll]_vars

---------------------------------------------------------------------------
(* generate-design: the validation of the prompt and the status of the answer *)

MAX_PROMPT_LENGTH == 500

\* a string is its leading white space, its core and its trailing white
\* space, each by its length; the core of a blank string is empty
StringLengths == {0, 1, MAX_PROMPT_LENGTH - 1, MAX_PROMPT_LENGTH, MAX_PROMPT_LENGTH + 1}
Strings ==
    {[type |-> "string", truthy |-> (lead + core + trail > 0),
      lead |-> lead, core |-> core, trail |-> trail] :
        lead \in {0, 1}, core \in StringLengths, trail \in {0, 2}}

\* undefined, null, false, 0, NaN; true, a non-zero number, an object, an array
NonStrings ==
    {[type |-> type, truthy |-> FALSE, lead |-> 0, core |-> 0, trail |-> 0] :
        type \in {"undefined", "null", "boolean", "number"}}
    \cup
    {[type |-> type, truthy |-> TRUE, lead |-> 0, core |-> 0, trail |-> 0] :
        type \in {"boolean", "number", "object"}}

\* the body of the request: not JSON, the JSON null, or a JSON value with
\* the property prompt (undefined when it has none)
Undefined == [type |-> "undefined", truthy |-> FALSE, lead |-> 0, core |-> 0, trail |-> 0]
Requests ==
    {[body |-> body, prompt |-> Undefined] : body \in {"malformed", "null"}}
    \cup {[body |-> "value", prompt |-> p] : p \in NonStrings \cup Strings}

\* prompt.trim() and .length
Trim(s) == [s EXCEPT !.lead = 0, !.trail = 0]
Length(s) == s.lead + s.core + s.trail

IsTooLongFromLimit(n) == n >= MAX_PROMPT_LENGTH

\* sanitizedPrompt.length > MAX_PROMPT_LENGTH
IsTooLong(n) == n > MAX_PROMPT_LENGTH

BadRequest(message) == [status |-> 400, error |-> message]

\* the four validations of the prompt: the 400 answer, or none
ValidatePrompt(prompt) ==
    IF ~prompt.truthy THEN BadRequest("Prompt is required")
    ELSE IF prompt.type # "string" THEN BadRequest("Prompt must be a string")
    ELSE IF Length(Trim(prompt)) = 0 THEN BadRequest("Prompt cannot be empty")
    ELSE IF IsTooLong(Length(Trim(prompt))) THEN BadRequest("Prompt too long")
    ELSE [status |-> 0]

NoUpstream == [generate |-> "pending", image |-> "pending", seedvr |-> "pending"]

InitServe ==
    /\ pc = "received"
    /\ IdleAlpha
    /\ IdleBounds
    /\ IdlePlan
    /\ IdleUpscale
    /\ IdleCanvas
    /\ IdleFusion
    /\ IdleGenerate
    /\ IdleClean
    /\ IdleSharpen
    /\ IdleResize
    /\ IdleRescale
    /\ IdleRemove
    /\ IdleFringe
    /\ IdleSubmit
    /\ IdleCalls
    /\ IdleStepped
    /\ IdlePoll
    /\ request \in Requests
    /\ falKey \in {"configured", "missing"}
    /\ upstream = NoUpstream
    /\ sent = {}
    /\ answer = [status |-> 0]

ServeUnchanged ==
    UNCHANGED <<request, falKey,
                boundsVars, planVars, upscaleVars, canvasVars, fusionVars,
                generateVars, cleanVars, sharpenVars, resizeVars,
                rescaleVars, removeVars, fringeVars, submitVars, callVars,
                steppedVars, pollVars, alphaVars>>

\* from await req.json() to the test of FAL_KEY
ServeValidates ==
    /\ pc = "received"
    /\ answer' =
         IF request.body # "value" THEN [status |-> 500, error |-> "body"]
         ELSE IF ValidatePrompt(request.prompt).status # 0
              THEN ValidatePrompt(request.prompt)
         ELSE IF falKey = "missing" THEN [status |-> 500, error |-> "FAL_KEY"]
         ELSE [status |-> 0]
    /\ pc' = IF answer'.status = 0 THEN "generating" ELSE "answered"
    /\ UNCHANGED <<upstream, sent>>
    /\ ServeUnchanged

\* the generation request and the tests of its response
ServeGenerates ==
    /\ pc = "generating"
    /\ sent' = sent \cup {"generate"}
    /\ \E generate \in {"ok", "rateLimited", "failed", "noImage"} :
         /\ upstream' = [upstream EXCEPT !.generate = generate]
         /\ answer' = IF generate = "ok" THEN answer
                      ELSE EdgeResponse(generate, "pending", "pending", {})
         /\ pc' = IF generate = "ok" THEN "fetching" ELSE "answered"
    /\ ServeUnchanged

\* the fetch of the image and the SeedVR upscale in parallel, then the answer
ServeFetches ==
    /\ pc = "fetching"
    /\ sent' = sent \cup {"image", "seedvr"}
    /\ \E image \in {"ok", "notOk", "throws"},
          seedvr \in {"ok", "notOk", "noUrl", "throws"} :
         /\ upstream' = [upstream EXCEPT !.image = image, !.seedvr = seedvr]
         /\ answer' = EdgeResponse("ok", image, seedvr, {})
    /\ pc' = "answered"
    /\ ServeUnchanged

NextServe == ServeValidates \/ ServeGenerates \/ ServeFetches

SpecServe == InitServe /\ [][NextServe]_vars

\* the prompt of a request whose body carries one
HasPrompt == request.body = "value"
TrimmedLength == Length(Trim(request.prompt))

\* C30: the answer is 400 with no external request sent when the prompt is
\* missing or falsy ('Prompt is required'), is not a string ('Prompt must be
\* a string'), is empty after trimming ('Prompt cannot be empty') or is
\* longer than 500 characters after trimming; a prompt of exactly 500
\* characters after trimming is accepted; an upstream 429 is answered with
\* 429 and every other failure with 500.
C30_PromptValidationAndStatus ==
    pc = "answered" =>
      /\ (HasPrompt /\ ~request.prompt.truthy) =>
            answer = BadRequest("Prompt is required") /\ sent = {}
      /\ (HasPrompt /\ request.prompt.truthy /\ request.prompt.type # "string") =>
            answer = BadRequest("Prompt must be a string") /\ sent = {}
      /\ (HasPrompt /\ request.prompt.truthy /\ request.prompt.type = "string"
          /\ TrimmedLength = 0) =>
            answer = BadRequest("Prompt cannot be empty") /\ sent = {}
      /\ (HasPrompt /\ request.prompt.type = "string"
          /\ TrimmedLength > MAX_PROMPT_LENGTH) =>
            answer.status = 400 /\ sent = {}
      /\ (HasPrompt /\ request.prompt.type = "string"
          /\ TrimmedLength = MAX_PROMPT_LENGTH) =>
            /\ answer.status # 400
            /\ falKey = "configured" => "generate" \in sent
      /\ answer.status = 429 <=> upstream.generate = "rateLimited"
      /\ answer.status = 200 <=> (upstream.generate = "ok" /\ upstream.image = "ok")
      /\ answer.status = 400 <=> (HasPrompt /\ ValidatePrompt(request.prompt).status = 400)
      /\ answer.status \in {200, 400, 429, 500}

\* a prompt of 500 characters between white space was sent on and the
\* generation was rate limited
C30_Witness ==
    /\ pc = "answered"
    /\ HasPrompt
    /\ request.prompt.type = "string"
    /\ request.prompt.lead = 1
    /\ request.prompt.trail = 2
    /\ TrimmedLength = MAX_PROMPT_LENGTH
    /\ answer.status = 429
    /\ sent = {"generate"}

---------------------------------------------------------------------------
(* extractAlpha and applyAlpha *)

\* rasters of up to MaxAlphaPixels pixels in a row or in a column, their
\* pixels <<R, G, B, A>> of MaxAlphaColours colours
MaxAlphaPixels == 2
MaxAlphaColours == 2
RasterColours == {<<200 \div c, 100 \div c, 50 \div c>> : c \in 1..MaxAlphaColours}
RasterAlphas == {0, 128, 255}
RasterPixels == {<<c[1], c[2], c[3], a>> : c \in RasterColours, a \in RasterAlphas}
RasterShapes ==
    {<<n, 1>> : n \in 1..MaxAlphaPixels} \cup {<<1, n>> : n \in 1..MaxAlphaPixels}
RastersOf(shape, pixels) ==
    {[width |-> shape[1], height |-> shape[2], data |-> data] :
        data \in [1..(shape[1] * shape[2]) -> pixels]}
Rasters == UNION {RastersOf(shape, RasterPixels) : shape \in RasterShapes}

SameSize(a, b) == a.width = b.width /\ a.height = b.height

\* extractAlpha: R = G = B = the alpha of the pixel, alpha = 255
extractAlpha(raster) ==
    [raster EXCEPT !.data =
        [i \in DOMAIN raster.data |->
            <<raster.data[i][4], raster.data[i][4], raster.data[i][4], 255>>]]

\* the mutant of MaskValue: the alpha channel of the alpha raster is read
MaskValueFromAlpha(pixel) == pixel[4]

\* the red channel of a pixel of the alpha raster
MaskValue(pixel) == pixel[1]

\* applyAlpha on an alpha raster of the dimensions of the RGB raster: the
\* alpha of each pixel from the alpha raster, its colour from the RGB raster
applyAlpha(rgb, mask) ==
    [rgb EXCEPT !.data =
        [i \in DOMAIN rgb.data |->
            <<rgb.data[i][1], rgb.data[i][2], rgb.data[i][3],
              MaskValue(mask.data[i])>>]]

\* what the resampling of an alpha raster to a shape may give: opaque grey
\* pixels between its least and greatest value
Resampled(mask, shape) ==
    LET values == {MaskValue(mask.data[i]) : i \in DOMAIN mask.data}
    IN RastersOf(shape, {<<v, v, v, 255>> : v \in values})

InitAlpha ==
    /\ pc = "decodedRaster"
    /\ IdleBounds
    /\ IdlePlan
    /\ IdleUpscale
    /\ IdleCanvas
    /\ IdleFusion
    /\ IdleGenerate
    /\ IdleClean
    /\ IdleSharpen
    /\ IdleResize
    /\ IdleRescale
    /\ IdleRemove
    /\ IdleFringe
    /\ IdleSubmit
    /\ IdleCalls
    /\ IdleStepped
    /\ IdlePoll
    /\ IdleServe
    /\ rgbRaster \in Rasters
    /\ alphaSource \in {rgbRaster} \cup RastersOf(<<1, 1>>, RasterPixels)
    /\ alphaRaster = alphaSource
    /\ appliedRaster = rgbRaster

ExtractAlpha ==
    /\ pc = "decodedRaster"
    /\ alphaRaster' = extractAlpha(alphaSource)
    /\ pc' = "extracted"
    /\ UNCHANGED <<rgbRaster, alphaSource, appliedRaster,
                   boundsVars, planVars, upscaleVars, canvasVars, fusionVars,
                   generateVars, cleanVars, sharpenVars, resizeVars,
                   rescaleVars, removeVars, fringeVars, submitVars, callVars,
                   steppedVars, pollVars, serveVars>>

\* applyAlpha: the alpha raster is resampled when the dimensions differ
ApplyAlpha ==
    /\ pc = "extracted"
    /\ \E mask \in (IF SameSize(rgbRaster, alphaRaster) THEN {alphaRaster}
                    ELSE Resampled(alphaRaster, <<rgbRaster.width, rgbRaster.height>>)) :
         appliedRaster' = applyAlpha(rgbRaster, mask)
    /\ pc' = "applied"
    /\ UNCHANGED <<rgbRaster, alphaSource, alphaRaster,
                   boundsVars, planVars, upscaleVars, canvasVars, fusionVars,
                   generateVars, cleanVars, sharpenVars, resizeVars,
                   rescaleVars, removeVars, fringeVars, submitVars, callVars,
                   steppedVars, pollVars, serveVars>>

NextAlpha == ExtractAlpha \/ ApplyAlpha

SpecAlpha == InitAlpha /\ [][NextAlpha]_vars

\* C21: for every raster r, applyAlpha(r, extractAlpha(r)) has the alpha of r
\* at every pixel and the colour channels of r unchanged.
C21_AlphaRoundTrip ==
    (pc = "applied" /\ alphaSource = rgbRaster) =>
        /\ SameSize(appliedRaster, rgbRaster)
        /\ \A i \in DOMAIN rgbRaster.data :
              /\ appliedRaster.data[i][4] = rgbRaster.data[i][4]
              /\ \A c \in 1..3 : appliedRaster.data[i][c] = rgbRaster.data[i][c]

\* the round trip of a raster of two pixels, one transparent and coloured,
\* one half transparent
C21_Witness ==
    /\ pc = "applied"
    /\ alphaSource = rgbRaster
    /\ rgbRaster.width = 2
    /\ rgbRaster.data[1] = <<200, 100, 50, 0>>
    /\ rgbRaster.data[2][4] = 128
    /\ alphaRaster.data[1] = <<0, 0, 0, 255>>
    /\ appliedRaster.data[1] = <<200, 100, 50, 0>>

===========================================================================
